---- MODULE Spec2Model ----
(***************************************************************************)
(* Commission engine of ecosysMS-Back.                                     *)
(*                                                                         *)
(*  - the delinquency ledger (table comissoes_pendentes) and the           *)
(*    operations of api/scripts/inadimplencia.py over it, with the SQL of  *)
(*    api/lib/inadimplencia_queries.py;                                    *)
(*  - the pure commission functions of api/scripts/vendas.py               *)
(*    (_get_commission_months, get_tier_info, map_cliente_to_comissao,     *)
(*    calcular_comissao_por_historico_pagamentos);                         *)
(*  - the commission configuration (table commission_config and its       *)
(*    in-process cache) with fetch_commission_config and                   *)
(*    update_commission_config running in different threads;               *)
(*  - two FIFO release requests running side by side on the ledger, and    *)
(*    the snapshot run while some of its inserts raise.                    *)
(*                                                                         *)
(* Representation.  A calendar month ("YYYY-MM", or a DATE truncated to    *)
(* its month) is the pair <<year, month>>; string comparison of two        *)
(* "YYYY-MM" texts is the lexicographic order of the pairs (4-digit years, *)
(* zero-padded months).  A missing month is SemMes, a NULL data_liberacao  *)
(* is SemData, a missing cnpj is "", any other None is "None".  A          *)
(* timestamp (datetime.now()) is the logical clock agora.  A percentage is *)
(* an integer number of percent: 30 stands for the rate 0.30.  An input    *)
(* amount (valor, valor_mrr, taxa_setup) is an integer number of currency  *)
(* units; a computed commission amount (valor_comissao, valorComissao) is   *)
(* an integer number of hundredths of the unit, amount * percent, so that  *)
(* 1005 at 10 percent is 10050, the code's 100.5.                          *)
(***************************************************************************)
EXTENDS Integers, Sequences, FiniteSets, TLC

VARIABLES
    ledger,         \* rows of comissoes_pendentes
    nextId,         \* next primary key of comissoes_pendentes
    hoje,           \* calendar month of datetime.now(), <<year, month>>
    agora,          \* logical value of datetime.now().isoformat()
    op,             \* the last ledger call that ended, with its arguments, or
                    \* "iniciar" once a snapshot run has started
    retorno,        \* what that operation returned
    snap,           \* the snapshot run under way, SnapParado when there is none
    pagasFifo,      \* ids of the rows paid by a FIFO release (history)
    repetida,       \* the last operation was a snapshot run for the second time
                    \* in a row with the same client list, both in one and the
                    \* same month and with no other request meanwhile (history)
    tentativas,     \* tentativas[i]: <<parcel, month, failure>> of every insert
                    \* the last snapshot run made for client i (history)
    fn,             \* the pure function last called ("none" before any)
    entrada,        \* its arguments
    saida,          \* its result
    commission_config,             \* rows of table commission_config
    commission_config_cache,       \* _commission_config_cache: <<>> or <<config>>
    commission_config_cache_time,  \* _commission_config_cache_time: <<>> or <<seconds>>
    relogio,        \* datetime.now() of the configuration cache, in seconds
    pc,             \* where each thread stands in fetch/update_commission_config
    lido,           \* the configuration object each thread built from its row
    inicio,         \* the call each thread is running, as it started (history)
    devolvido,      \* what the last call that ended returned (history)
    updIniciados,   \* updates whose UPDATE statement was committed (history)
    updFeitos,      \* updates that returned (history)
    ultimoUpdate,   \* <<[config, args]>> of the last update that returned, <<>>
                    \* before (history)
    mudouEm,        \* <<seconds>> of the last committed change of the stored
                    \* configuration, <<>> before any (history)
    lidos,          \* the configuration objects fetch built from a row (history)
    pedido,         \* the two release requests that run side by side
    base,           \* the ledger when the first of them started (history)
    primeira        \* <<id, timestamp>> of each bloqueada -> paga transition
                    \* made by them (history)

ledgerVars == <<ledger, nextId, hoje, agora, op, retorno, snap, pagasFifo, repetida, tentativas>>
calcVars == <<fn, entrada, saida>>
configVars == <<commission_config, commission_config_cache, commission_config_cache_time, relogio, pc, lido, inicio, devolvido, updIniciados, updFeitos, ultimoUpdate, mudouEm, lidos>>
concVars == <<pedido, base, primeira>>
vars == <<ledgerVars, calcVars, configVars, concVars>>

None == "None"

----------------------------------------------------------------------------
(* Bounds *)

MaxParcelas == 3        \* largest parcelas_atrasadas of a snapshot entry
MaxClientes == 2        \* longest client list of one snapshot
MaxInsercoes == 3       \* most inserts of one snapshot run
MaxAgora == 3           \* number of ledger requests in one behaviour
MaxAvancos == 1         \* number of month changes in one behaviour
MaxLiberar == 3         \* largest parcelas_pagas of a release
MaxParcelasPedido == 2  \* largest parcel count of a request served beside another

CNPJs == {"c1", "c2"}
MRRs == {1005}
Percentuais == {10}
\* reasons a mark-as-lost request carries: MarcarPerdidaRequest.motivo is any
\* string, 'cancelamento' when the request gives none
Motivos == {"cancelamento", "fraude", ""}
MesInicial == <<2025, 3>>

----------------------------------------------------------------------------
(* Calendar months *)

\* position of a month on the time line; orders DATE values and "YYYY-MM" texts
MesOrd(m) == m[1] * 12 + (m[2] - 1)

\* one step back that keeps the year when leaving January
MesAnteriorSemAno(m) == IF m[2] = 1 THEN <<m[1], 12>> ELSE <<m[1], m[2] - 1>>

\* inadimplencia.py 347-357: one step back, December of the previous year from January
MesAnterior(m) == IF m[2] = 1 THEN <<m[1] - 1, 12>> ELSE <<m[1], m[2] - 1>>

RECURSIVE SubtrairMeses(_, _)
SubtrairMeses(m, n) == IF n = 0 THEN m ELSE SubtrairMeses(MesAnterior(m), n - 1)

MesSeguinte(m) == IF m[2] = 12 THEN <<m[1] + 1, 1>> ELSE <<m[1], m[2] + 1>>

\* no month: a missing reference_month, data_adesao or data_cancelamento
SemMes == <<>>

----------------------------------------------------------------------------
(* Table comissoes_pendentes.  A row:                                      *)
(*   id, cnpj, mes_referencia, parcela_numero, valor_mrr,                  *)
(*   percentual_aplicado, valor_comissao, status, motivo_bloqueio,         *)
(*   data_bloqueio, data_liberacao                                         *)

\* data_liberacao IS NULL (timestamps start at 1)
SemData == 0

Bloqueada == "bloqueada"
Paga == "paga"
Perdida == "perdida"
StatusValidos == {Bloqueada, Paga, Perdida}

RowsDe(led, cnpj) == {r \in led : r.cnpj = cnpj}
BloqueadasDe(led, cnpj) == {r \in led : r.cnpj = cnpj /\ r.status = Bloqueada}

\* ON CONFLICT (cnpj, mes_referencia): a row with the same key is in the table
Conflita(led, dados) ==
    \E r \in led : r.cnpj = dados.cnpj /\ r.mes_referencia = dados.mes_referencia

\* the same insert as an upsert that re-blocks the existing row
InserirSqlUpsert(led, nid, dados) ==
    [ledger |-> {r \in led : ~(r.cnpj = dados.cnpj /\ r.mes_referencia = dados.mes_referencia)}
                    \cup {[dados EXCEPT !.id = nid]},
     nextId |-> nid + 1]

\* the same insert with ON CONFLICT ... DO UPDATE SET status, data_bloqueio:
\* the existing row keeps its id and is blocked again
InserirSqlReBloqueia(led, nid, dados) ==
    IF Conflita(led, dados)
    THEN [ledger |-> {IF r.cnpj = dados.cnpj /\ r.mes_referencia = dados.mes_referencia
                      THEN [r EXCEPT !.status = dados.status,
                                     !.data_bloqueio = dados.data_bloqueio,
                                     !.data_liberacao = dados.data_liberacao]
                      ELSE r : r \in led},
          nextId |-> nid]
    ELSE [ledger |-> led \cup {[dados EXCEPT !.id = nid]}, nextId |-> nid + 1]

\* the same insert with no uniqueness constraint on (cnpj, mes_referencia)
InserirSqlSemUnique(led, nid, dados) ==
    [ledger |-> led \cup {[dados EXCEPT !.id = nid]}, nextId |-> nid + 1]

\* INSERIR_COMISSAO_PENDENTE: INSERT ... ON CONFLICT (cnpj, mes_referencia) DO NOTHING
InserirSql(led, nid, dados) ==
    IF Conflita(led, dados)
    THEN [ledger |-> led, nextId |-> nid]
    ELSE [ledger |-> led \cup {[dados EXCEPT !.id = nid]}, nextId |-> nid + 1]

\* what the database does during one call
SemFalha == "nenhuma"           \* nothing fails
FalhaConexao == "conexao"       \* get_conn() raises, before the try
FalhaConsulta == "consulta"     \* cur.execute() or conn.commit() raises
Falhas == {SemFalha, FalhaConexao, FalhaConsulta}

\* _inserir_comissao_pendente.  True once the statement ran and was committed
\* (whether or not it inserted a row); False when the statement or the commit
\* raised and was rolled back; when get_conn() raises the call raises (raised,
\* and sucesso is None: nothing was returned).
InserirComissaoPendente(led, nid, dados, falha) ==
    IF falha = FalhaConexao
    THEN [ledger |-> led, nextId |-> nid, raised |-> TRUE, sucesso |-> None]
    ELSE IF falha = FalhaConsulta
    THEN [ledger |-> led, nextId |-> nid, raised |-> FALSE, sucesso |-> FALSE]
    ELSE [ledger |-> InserirSql(led, nid, dados).ledger,
          nextId |-> InserirSql(led, nid, dados).nextId,
          raised |-> FALSE,
          sucesso |-> TRUE]

\* processar_snapshot_inadimplencia, lines 359-376: the row of one overdue
\* parcel.  valor_comissao = valor_mrr * (percentual_comissao / 100), in
\* hundredths of the currency unit.
DadosParcela(cliente, parcela, mesHoje, ts) ==
    [id |-> 0,
     cnpj |-> cliente.cnpj,
     mes_referencia |-> SubtrairMeses(mesHoje, parcela),
     parcela_numero |-> parcela,
     valor_mrr |-> cliente.valor_mrr,
     percentual_aplicado |-> cliente.percentual_comissao,
     valor_comissao |-> cliente.valor_mrr * cliente.percentual_comissao,
     status |-> Bloqueada,
     motivo_bloqueio |-> "inadimplencia",
     data_bloqueio |-> ts,
     data_liberacao |-> SemData]

(* A run of processar_snapshot_inadimplencia.  The function is not one     *)
(* database step: every parcel takes its own connection, runs one INSERT   *)
(* and commits, and reads datetime.now() again.  A run is the record       *)
(*   pc          "parado" (no run) or "rodando"                            *)
(*   clientes    the argument                                              *)
(*   i, parcela  the client and the parcel the loops stand at              *)
(*   criados, existentes   registros_criados, registros_existentes         *)
(*   resultados  the list built so far                                     *)
(*   tentativas  tentativas[k]: <<parcel, month, failure>> of every insert *)
(*               made so far for client k (history)                        *)
(*   ledger0, hoje0   the table and the month when the run started         *)
(*               (history)                                                 *)
(*   limpa       the month has not changed and no other request has        *)
(*               committed since the run started (history)                 *)
(*   segunda     the run started right after a run with the same list      *)
(*               that stayed in this same month (history)                  *)

SnapParado ==
    [pc |-> "parado", clientes |-> <<>>, i |-> 0, parcela |-> 0,
     criados |-> 0, existentes |-> 0, resultados |-> <<>>, tentativas |-> <<>>,
     ledger0 |-> {}, hoje0 |-> SemMes, limpa |-> TRUE, segunda |-> FALSE]

\* lines 329-337: the run as the call starts
SnapInicial(clientes, led, mesHoje, segunda) ==
    [pc |-> "rodando", clientes |-> clientes, i |-> 1, parcela |-> 1,
     criados |-> 0, existentes |-> 0, resultados |-> <<>>,
     tentativas |-> [k \in 1..Len(clientes) |-> {}],
     ledger0 |-> led, hoje0 |-> mesHoje, limpa |-> TRUE, segunda |-> segunda]

\* lines 379-388: the counters after one insert; an insert that raised counts
\* like one that returned False
Contar(s, ins, dados, falha) ==
    [s EXCEPT !.criados = IF ~ins.raised /\ ins.sucesso THEN @ + 1 ELSE @,
              !.existentes = IF ~ins.raised /\ ins.sucesso THEN @ ELSE @ + 1,
              !.tentativas[s.i] = @ \cup {<<s.parcela, dados.mes_referencia, falha>>}]

\* the month subtraction of lines 346-357 raises: replace(year=...) is asked for
\* a year before 1 (datetime.MINYEAR) once the parcel lies more months back
\* than the calendar has
SubtrairMesesLevanta(m, n) == MesOrd(m) - n < MesOrd(<<1, 1>>)

\* the two for loops: the result of the client and the next client.  sucesso:
\* the client's last parcel is done and lines 390-396 append its counters;
\* ~sucesso: the body of the outer try raised and the except of lines 403-412
\* appends a result with both counters 0 and sucesso=False, whatever the
\* parcels before had inserted
ProximoCliente(s, sucesso) ==
    [s EXCEPT !.resultados = Append(@, [cnpj |-> s.clientes[s.i].cnpj,
                                        registros_criados |-> IF sucesso THEN s.criados ELSE 0,
                                        registros_existentes |-> IF sucesso THEN s.existentes ELSE 0,
                                        sucesso |-> sucesso]),
              !.i = @ + 1,
              !.parcela = 1,
              !.criados = 0,
              !.existentes = 0]

Avancar(s) ==
    IF s.parcela < s.clientes[s.i].parcelas_atrasadas
    THEN [s EXCEPT !.parcela = @ + 1]
    ELSE ProximoCliente(s, TRUE)

\* one turn of the inner loop, were the loop to leave the client at the first
\* insert that fails
PassoParcelaAbortando(s, led, nid, mesHoje, ts, falha) ==
    LET dados == DadosParcela(s.clientes[s.i], s.parcela, mesHoje, ts)
        ins == InserirComissaoPendente(led, nid, dados, falha)
    IN [snap |-> IF falha = SemFalha
                 THEN Avancar(Contar(s, ins, dados, falha))
                 ELSE ProximoCliente(Contar(s, ins, dados, falha), TRUE),
        ledger |-> ins.ledger,
        nextId |-> ins.nextId]

\* processar_snapshot_inadimplencia, lines 338-412: one turn of the inner loop,
\* the insert of parcel s.parcela of client s.i.  mesHoje and ts are the
\* datetime.now() of lines 340 and 375, read in this turn.  An insert that
\* fails is caught by the inner try (lines 379-388); a month subtraction that
\* raises is caught by the outer one and ends the client.
PassoParcela(s, led, nid, mesHoje, ts, falha) ==
    IF SubtrairMesesLevanta(mesHoje, s.parcela)
    THEN [snap |-> ProximoCliente(s, FALSE), ledger |-> led, nextId |-> nid]
    ELSE LET dados == DadosParcela(s.clientes[s.i], s.parcela, mesHoje, ts)
             ins == InserirComissaoPendente(led, nid, dados, falha)
         IN [snap |-> Avancar(Contar(s, ins, dados, falha)),
             ledger |-> ins.ledger,
             nextId |-> ins.nextId]

\* the loop over the clients has ended (line 414)
Terminou(s) == s.i > Len(s.clientes)

\* r comes before s in ORDER BY mes_referencia ASC (ties, which the unique key
\* excludes, by id)
Antes(r, s) ==
    \/ MesOrd(r.mes_referencia) < MesOrd(s.mes_referencia)
    \/ (r.mes_referencia = s.mes_referencia /\ r.id < s.id)

\* LIBERAR_COMISSOES_FIFO, lines 73-76: SELECT id ... WHERE cnpj = %s AND
\* status = 'bloqueada' ORDER BY mes_referencia ASC LIMIT %s
FifoIds(led, cnpj, n) ==
    {r.id : r \in {x \in BloqueadasDe(led, cnpj) :
                      Cardinality({y \in BloqueadasDe(led, cnpj) : Antes(y, x)}) < n}}

\* LIBERAR_COMISSOES_FIFO, lines 70-72: UPDATE ... SET status = 'paga',
\* data_liberacao = %s WHERE id IN (...)
LiberarSql(led, cnpj, n, ts) ==
    {IF r.id \in FifoIds(led, cnpj, n)
     THEN [r EXCEPT !.status = Paga, !.data_liberacao = ts]
     ELSE r : r \in led}

\* the update with no cnpj filter: every blocked row of the table
MarcarPerdidasSqlSemCnpj(led, cnpj, motivo) ==
    {IF r.status = Bloqueada
     THEN [r EXCEPT !.status = Perdida, !.motivo_bloqueio = motivo]
     ELSE r : r \in led}

\* the update with no status filter: every row of the client
MarcarPerdidasSqlSemStatus(led, cnpj, motivo) ==
    {IF r.cnpj = cnpj
     THEN [r EXCEPT !.status = Perdida, !.motivo_bloqueio = motivo]
     ELSE r : r \in led}

\* MARCAR_COMISSOES_PERDIDAS: UPDATE ... SET status = 'perdida', motivo_bloqueio = %s
\* WHERE cnpj = %s AND status = 'bloqueada'
MarcarPerdidasSql(led, cnpj, motivo) ==
    {IF r.cnpj = cnpj /\ r.status = Bloqueada
     THEN [r EXCEPT !.status = Perdida, !.motivo_bloqueio = motivo]
     ELSE r : r \in led}

\* ATUALIZAR_COMISSOES_STATUS: UPDATE ... SET status = %s, motivo_bloqueio = %s
\* WHERE cnpj = %s AND status = 'bloqueada'
AtualizarStatusSql(led, cnpj, status, motivo) ==
    {IF r.cnpj = cnpj /\ r.status = Bloqueada
     THEN [r EXCEPT !.status = status, !.motivo_bloqueio = motivo]
     ELSE r : r \in led}

\* ATUALIZAR_COMISSAO_PARA_PAGA: UPDATE ... SET status = 'paga', data_liberacao = %s
\* WHERE id = %s
AtualizarParaPagaSql(led, id, ts) ==
    {IF r.id = id
     THEN [r EXCEPT !.status = Paga, !.data_liberacao = ts]
     ELSE r : r \in led}

----------------------------------------------------------------------------
(* Ledger operations *)

\* ClienteInadimplente records a snapshot request can carry
ClientesInadimplentes ==
    [cnpj : CNPJs, parcelas_atrasadas : 1..MaxParcelas,
     valor_mrr : MRRs, percentual_comissao : Percentuais]

\* the number of inserts a run over the list makes
RECURSIVE TotalParcelas(_, _)
TotalParcelas(clientes, n) ==
    IF n = 0 THEN 0 ELSE clientes[n].parcelas_atrasadas + TotalParcelas(clientes, n - 1)

ListasDeClientes ==
    {clientes \in UNION {[1..k -> ClientesInadimplentes] : k \in 1..MaxClientes} :
        TotalParcelas(clientes, Len(clientes)) <= MaxInsercoes}

\* a call that ended: its name, its arguments, what the database did during
\* it (falha) and, for a snapshot run, the month it ran in (mes; SemMes when
\* the month changed during the run or another request committed meanwhile)
Chamada(nome, cnpj, n, clientes, id, status, motivo, falha, mes) ==
    [nome |-> nome, cnpj |-> cnpj, n |-> n, clientes |-> clientes,
     id |-> id, status |-> status, motivo |-> motivo, falha |-> falha, mes |-> mes]

\* what a call gave back: raised, or the list of a snapshot run (resultados),
\* the int of a release (liberadas), the bool of the other updates (ok).  When
\* raised is TRUE nothing was returned and the other fields say nothing.
Retorno(resultados, liberadas, ok, raised) ==
    [resultados |-> resultados, liberadas |-> liberadas, ok |-> ok, raised |-> raised]

\* a request that commits, or a change of month, while a snapshot run is under
\* way
Interferida(s) == IF s.pc = "rodando" THEN [s EXCEPT !.limpa = FALSE] ELSE s

\* processar_snapshot_inadimplencia(clientes), lines 329-337: the call starts
IniciarSnapshot(clientes) ==
    /\ snap.pc = "parado"
    /\ agora < MaxAgora
    /\ snap' = SnapInicial(clientes, ledger, hoje,
                           op.nome = "snapshot" /\ op.clientes = clientes /\ op.mes = hoje)
    /\ op' = Chamada("iniciar", None, 0, clientes, 0, None, None, SemFalha, SemMes)
    /\ agora' = agora + 1
    /\ UNCHANGED <<ledger, nextId, hoje, retorno, pagasFifo, repetida, tentativas>>

\* processar_snapshot_inadimplencia, lines 338-414: one turn of the inner loop
\* and, after the last parcel of the last client, the return of the list, in
\* a worker process that is alone on the database: the endpoint calls the
\* function from the event loop, so the process serves no other request
\* before the run has ended, and the clock read (lines 340, 375), the INSERT
\* (line 145) and the commit (line 151) of the turn follow each other with
\* no other transaction between them.  The same turn taken statement by
\* statement, a second worker process writing the ledger alongside, is
\* LerRelogioPedido, ExecutarInsertPedido and ConfirmarInsertPedido.
InserirParcela(falha) ==
    /\ snap.pc = "rodando"
    /\ LET p == PassoParcela(snap, ledger, nextId, hoje, agora, falha)
       IN /\ ledger' = p.ledger
          /\ nextId' = p.nextId
          /\ IF Terminou(p.snap)
             THEN /\ snap' = SnapParado
                  /\ retorno' = Retorno(p.snap.resultados, 0, TRUE, FALSE)
                  /\ op' = Chamada("snapshot", None, 0, snap.clientes, 0, None, None, SemFalha,
                                   IF snap.limpa THEN snap.hoje0 ELSE SemMes)
                  /\ repetida' = (snap.segunda /\ snap.limpa)
                  /\ tentativas' = p.snap.tentativas
             ELSE /\ snap' = p.snap
                  /\ UNCHANGED <<op, retorno, repetida, tentativas>>
    /\ UNCHANGED <<hoje, agora, pagasFifo>>

\* _atualizar_comissoes_cliente_regularizado(cnpj, parcelas_pagas): the
\* rowcount of the FIFO update; 0 after a rollback; raises when get_conn() does
LiberarFifo(cnpj, parcelas_pagas, falha) ==
    /\ agora < MaxAgora
    /\ ledger' = IF falha = SemFalha
                 THEN LiberarSql(ledger, cnpj, parcelas_pagas, agora + 1)
                 ELSE ledger
    /\ retorno' = IF falha = SemFalha
                  THEN Retorno(<<>>, Cardinality(FifoIds(ledger, cnpj, parcelas_pagas)), TRUE, FALSE)
                  ELSE Retorno(<<>>, 0, FALSE, falha = FalhaConexao)
    /\ pagasFifo' = IF falha = SemFalha
                    THEN pagasFifo \cup FifoIds(ledger, cnpj, parcelas_pagas)
                    ELSE pagasFifo
    /\ agora' = agora + 1
    /\ op' = Chamada("liberar", cnpj, parcelas_pagas, <<>>, 0, None, None, falha, SemMes)
    /\ snap' = Interferida(snap)
    /\ repetida' = FALSE
    /\ tentativas' = <<>>
    /\ UNCHANGED <<nextId, hoje>>

\* _marcar_comissao_perdida(cnpj, motivo): writes motivo to motivo_bloqueio of
\* the rows it moves; True once committed, False after a rollback; raises when
\* get_conn() does
MarcarPerdida(cnpj, motivo, falha) ==
    /\ agora < MaxAgora
    /\ ledger' = IF falha = SemFalha
                 THEN MarcarPerdidasSql(ledger, cnpj, motivo)
                 ELSE ledger
    /\ retorno' = Retorno(<<>>, 0, falha = SemFalha, falha = FalhaConexao)
    /\ agora' = agora + 1
    /\ op' = Chamada("perdida", cnpj, 0, <<>>, 0, None, motivo, falha, SemMes)
    /\ snap' = Interferida(snap)
    /\ repetida' = FALSE
    /\ tentativas' = <<>>
    /\ UNCHANGED <<nextId, hoje, pagasFifo>>

\* _atualizar_comissoes_status(cnpj, status, motivo): writes status and motivo
\* to the blocked rows of cnpj; True once committed, False after a rollback;
\* raises when get_conn() does
AtualizarStatus(cnpj, status, motivo, falha) ==
    /\ agora < MaxAgora
    /\ ledger' = IF falha = SemFalha
                 THEN AtualizarStatusSql(ledger, cnpj, status, motivo)
                 ELSE ledger
    /\ retorno' = Retorno(<<>>, 0, falha = SemFalha, falha = FalhaConexao)
    /\ agora' = agora + 1
    /\ op' = Chamada("status", cnpj, 0, <<>>, 0, status, motivo, falha, SemMes)
    /\ snap' = Interferida(snap)
    /\ repetida' = FALSE
    /\ tentativas' = <<>>
    /\ UNCHANGED <<nextId, hoje, pagasFifo>>

\* _atualizar_comissao_para_paga(comissao_id): True once committed, False after
\* a rollback; raises when get_conn() does
AtualizarParaPaga(id, falha) ==
    /\ agora < MaxAgora
    /\ ledger' = IF falha = SemFalha
                 THEN AtualizarParaPagaSql(ledger, id, agora + 1)
                 ELSE ledger
    /\ retorno' = Retorno(<<>>, 0, falha = SemFalha, falha = FalhaConexao)
    /\ agora' = agora + 1
    /\ op' = Chamada("paga", None, 0, <<>>, id, None, None, falha, SemMes)
    /\ snap' = Interferida(snap)
    /\ repetida' = FALSE
    /\ tentativas' = <<>>
    /\ UNCHANGED <<nextId, hoje, pagasFifo>>

\* the calendar month of datetime.now() changes
AvancarMes ==
    /\ MesOrd(hoje) < MesOrd(MesInicial) + MaxAvancos
    /\ hoje' = MesSeguinte(hoje)
    /\ op' = Chamada("mes", None, 0, <<>>, 0, None, None, SemFalha, SemMes)
    /\ snap' = Interferida(snap)
    /\ repetida' = FALSE
    /\ tentativas' = <<>>
    /\ UNCHANGED <<ledger, nextId, agora, retorno, pagasFifo>>

(* The requests of one worker process: POST                                 *)
(* /vendas/processar-snapshot-inadimplencia, /vendas/regularizar-cliente    *)
(* and /vendas/marcar-comissao-perdida.                                      *)
(* post_processar_snapshot_inadimplencia calls the synchronous               *)
(* processar_snapshot_inadimplencia from the event loop, so the process      *)
(* serves no other request before the run has ended; the clock goes on      *)
(* while the run lasts.                                                      *)

SnapshotIniciar ==
    /\ \E clientes \in ListasDeClientes : IniciarSnapshot(clientes)
    /\ UNCHANGED <<calcVars, configVars, concVars>>

SnapshotInserir ==
    /\ InserirParcela(SemFalha)
    /\ UNCHANGED <<calcVars, configVars, concVars>>

Liberar ==
    /\ snap.pc = "parado"
    /\ \E cnpj \in CNPJs, n \in 1..MaxLiberar : LiberarFifo(cnpj, n, SemFalha)
    /\ UNCHANGED <<calcVars, configVars, concVars>>

Perder ==
    /\ snap.pc = "parado"
    /\ \E cnpj \in CNPJs, motivo \in Motivos : MarcarPerdida(cnpj, motivo, SemFalha)
    /\ UNCHANGED <<calcVars, configVars, concVars>>

(* The two update helpers of inadimplencia.py that no endpoint calls,       *)
(* _atualizar_comissoes_status and _atualizar_comissao_para_paga, called     *)
(* directly: they are part of SpecOperacoes only.                            *)

Status ==
    /\ snap.pc = "parado"
    /\ \E cnpj \in CNPJs, status \in StatusValidos, motivo \in Motivos, falha \in Falhas :
           AtualizarStatus(cnpj, status, motivo, falha)
    /\ UNCHANGED <<calcVars, configVars, concVars>>

PagaPorId ==
    /\ snap.pc = "parado"
    /\ \E r \in ledger, falha \in Falhas : AtualizarParaPaga(r.id, falha)
    /\ UNCHANGED <<calcVars, configVars, concVars>>

PassarMes ==
    /\ AvancarMes
    /\ UNCHANGED <<calcVars, configVars, concVars>>

InitLedger ==
    /\ ledger = {}
    /\ nextId = 1
    /\ hoje = MesInicial
    /\ agora = 0
    /\ op = Chamada("init", None, 0, <<>>, 0, None, None, SemFalha, SemMes)
    /\ retorno = Retorno(<<>>, 0, TRUE, FALSE)
    /\ snap = SnapParado
    /\ pagasFifo = {}
    /\ repetida = FALSE
    /\ tentativas = <<>>

InitCalc ==
    /\ fn = "none"
    /\ entrada = None
    /\ saida = None


----------------------------------------------------------------------------
(* Commission configuration (CommissionConfig) *)

\* the length of the commission cycle: range(7) in _get_commission_months
CicloMeses == 7

\* the 'prata' threshold of get_tier_info
PrataMin == 6

\* _get_default_commission_config
DefaultConfig ==
    [sales_goal |-> 10,
     mrr_tier1 |-> 5, mrr_tier2 |-> 10, mrr_tier3 |-> 20,
     setup_tier1 |-> 15, setup_tier2 |-> 25, setup_tier3 |-> 40,
     mrr_recurrence |-> <<30, 20, 10, 10, 10, 10, 10>>]

\* get_setup_rate_for_tier: the setup percentage of the seller's tier
\* (in percent: 15 stands for the rate 0.15)
GetSetupRateForTier(tier, config) ==
    IF tier = "ouro" THEN config.setup_tier3
    ELSE IF tier = "prata" THEN config.setup_tier2
    ELSE config.setup_tier1

\* the same with the comparison "more than the goal" instead of "at least"
GetTierInfoAcimaDaMeta(vendas_mes, config) ==
    IF vendas_mes > config.sales_goal
    THEN [tier |-> "ouro", percentualMrr |-> config.mrr_tier3,
          percentualSetup |-> config.setup_tier3]
    ELSE IF vendas_mes >= PrataMin
    THEN [tier |-> "prata", percentualMrr |-> config.mrr_tier2,
          percentualSetup |-> config.setup_tier2]
    ELSE [tier |-> "bronze", percentualMrr |-> config.mrr_tier1,
          percentualSetup |-> config.setup_tier1]

\* get_tier_info
GetTierInfo(vendas_mes, config) ==
    IF vendas_mes >= config.sales_goal
    THEN [tier |-> "ouro", percentualMrr |-> config.mrr_tier3,
          percentualSetup |-> config.setup_tier3]
    ELSE IF vendas_mes >= PrataMin
    THEN [tier |-> "prata", percentualMrr |-> config.mrr_tier2,
          percentualSetup |-> config.setup_tier2]
    ELSE [tier |-> "bronze", percentualMrr |-> config.mrr_tier1,
          percentualSetup |-> config.setup_tier1]

----------------------------------------------------------------------------
(* Commission cycle *)

\* the i-th month with the cycle starting in the signup month itself
CommissionMonthDesdeAdesao(start_month, i) ==
    LET new_month == start_month[2] + i
    IN <<start_month[1] + (new_month - 1) \div 12, ((new_month - 1) % 12) + 1>>

\* the i-th month with the year carried one month early
CommissionMonthAnoErrado(start_month, i) ==
    LET new_month == start_month[2] + i + 1
    IN <<start_month[1] + new_month \div 12, ((new_month - 1) % 12) + 1>>

\* _get_commission_months, lines 816-820: the body of the loop for index i
CommissionMonth(start_month, i) ==
    LET new_month == start_month[2] + i + 1
    IN <<start_month[1] + (new_month - 1) \div 12, ((new_month - 1) % 12) + 1>>

\* _get_commission_months
GetCommissionMonths(start_month) ==
    [k \in 1..CicloMeses |-> CommissionMonth(start_month, k - 1)]

\* x in seq
Contem(seq, x) == \E k \in 1..Len(seq) : seq[k] = x

\* seq.index(x), 0-based
Index(seq, x) == (CHOOSE k \in 1..Len(seq) : seq[k] = x /\ \A j \in 1..(k - 1) : seq[j] # x) - 1

\* the comparison a >= b in its place
MesMaiorOuIgual(a, b) == MesOrd(a) >= MesOrd(b)

\* a > b on two "YYYY-MM" texts
MesMaior(a, b) == MesOrd(a) > MesOrd(b)

Max(a, b) == IF a > b THEN a ELSE b

----------------------------------------------------------------------------
(* Commission of one client for one reference month.                        *)
(* cliente: [cnpj, data_adesao, data_cancelamento, valor, taxa_setup,       *)
(*           meses_ativo, parcelas_atrasadas, meses_ativo_referencia]       *)
(* with cnpj = "" when the row carries none, a date reduced to its month,   *)
(* and 0 for a missing number (the code reads both as 0).                   *)
(* historico: the rows of historico_pagamentos, [cnpj, vencimento, pago].   *)

\* config.mrr_recurrence[posicao] if posicao < len(config.mrr_recurrence) else 0.0
\* (in percent: 30 stands for the rate 0.30)
PercentualDaPosicao(config, posicao) ==
    IF posicao < Len(config.mrr_recurrence) THEN config.mrr_recurrence[posicao + 1] ELSE 0

\* vendas.py 1007-1013 and 764-770: mrr * percentual, plus the setup share at
\* position 0 when the setup fee is > 0
\* (in hundredths of the currency unit: amount * percent)
ValorComissao(mrr, setup_value, posicao, tier, config) ==
    (mrr * PercentualDaPosicao(config, posicao))
    + (IF posicao = 0 /\ setup_value > 0
       THEN (setup_value * GetSetupRateForTier(tier, config))
       ELSE 0)

\* the query of lines 966-977: the paid installments of cnpj whose due month
\* plus one month is mes_referencia
ParcelasDoMes(historico, cnpj, mes_referencia) ==
    {h \in historico : h.cnpj = cnpj /\ h.pago /\ MesSeguinte(h.vencimento) = mes_referencia}

\* the tuple (percentual, valor_comissao, posicao_ciclo) the function returns
Resultado(percentual, valor, posicao) ==
    [percentual |-> percentual, valor |-> valor, posicao |-> posicao, raised |-> FALSE]

\* the call raised: nothing was returned and the other fields say nothing
ResultadoLevantado ==
    [percentual |-> 0, valor |-> 0, posicao |-> -1, raised |-> TRUE]

\* calcular_comissao_por_historico_pagamentos.  falha: what the database does
\* once the function reaches it.  get_conn() of line 959 stands before the try
\* of line 960: when it raises the call raises; when the query raises the
\* except of lines 1017-1019 returns (0.0, 0.0, -1).
CalcularComissaoPorHistoricoPagamentos(cliente, mes_referencia, config, vendedor_tier, historico, falha) ==
    IF cliente.data_adesao = SemMes \/ cliente.cnpj = ""
    THEN Resultado(0, 0, -1)
    ELSE LET commission_months == GetCommissionMonths(cliente.data_adesao)
         IN IF ~Contem(commission_months, mes_referencia)
            THEN Resultado(0, 0, -1)
            ELSE LET posicao_ciclo == Index(commission_months, mes_referencia)
                     parcelas == ParcelasDoMes(historico, cliente.cnpj, mes_referencia)
                 IN IF falha = FalhaConexao
                    THEN ResultadoLevantado
                    ELSE IF falha = FalhaConsulta
                    THEN Resultado(0, 0, -1)
                    ELSE IF parcelas = {}
                    THEN Resultado(0, 0, posicao_ciclo)
                    ELSE IF /\ cliente.data_cancelamento # SemMes
                            /\ \A h \in parcelas :
                                   MesMaior(h.vencimento, cliente.data_cancelamento)
                    THEN Resultado(0, 0, posicao_ciclo)
                    ELSE Resultado(PercentualDaPosicao(config, posicao_ciclo),
                                   ValorComissao(cliente.valor, cliente.taxa_setup,
                                                 posicao_ciclo, vendedor_tier, config),
                                   posicao_ciclo)

\* an estimate that would take the current overdue count as the overdue count
\* of the reference month
EstimativaSemProjecao(cliente, mes_adesao, reference_month, vendedor_tier, config) ==
    LET commission_months == GetCommissionMonths(mes_adesao)
    IN IF ~Contem(commission_months, reference_month)
       THEN [percentual |-> 0, valor |-> 0, meses_comissao |-> 0]
       ELSE LET month_index == Index(commission_months, reference_month)
                is_canceled_before ==
                    /\ cliente.data_cancelamento # SemMes
                    /\ MesMaior(reference_month, cliente.data_cancelamento)
                meses_ativo_referencia ==
                    IF cliente.meses_ativo_referencia # 0
                    THEN cliente.meses_ativo_referencia ELSE month_index + 1
                meses_depois == cliente.meses_ativo - meses_ativo_referencia
                parcelas_atrasadas_no_mes == Max(0, cliente.parcelas_atrasadas)
                meses_comissao == Max(0, meses_ativo_referencia - parcelas_atrasadas_no_mes)
            IN IF is_canceled_before
               THEN [percentual |-> 0, valor |-> 0, meses_comissao |-> 0]
               ELSE IF meses_comissao >= month_index + 1
               THEN [percentual |-> PercentualDaPosicao(config, month_index),
                     valor |-> ValorComissao(cliente.valor, cliente.taxa_setup,
                                             month_index, vendedor_tier, config),
                     meses_comissao |-> meses_comissao]
               ELSE [percentual |-> 0, valor |-> 0, meses_comissao |-> meses_comissao]

\* map_cliente_to_comissao, lines 745-770: the estimate, used when the
\* historical computation returned position -1
Estimativa(cliente, mes_adesao, reference_month, vendedor_tier, config) ==
    LET commission_months == GetCommissionMonths(mes_adesao)
    IN IF ~Contem(commission_months, reference_month)
       THEN [percentual |-> 0, valor |-> 0, meses_comissao |-> 0]
       ELSE LET month_index == Index(commission_months, reference_month)
                is_canceled_before ==
                    /\ cliente.data_cancelamento # SemMes
                    /\ MesMaior(reference_month, cliente.data_cancelamento)
                meses_ativo_referencia ==
                    IF cliente.meses_ativo_referencia # 0
                    THEN cliente.meses_ativo_referencia ELSE month_index + 1
                meses_depois == cliente.meses_ativo - meses_ativo_referencia
                parcelas_atrasadas_no_mes == Max(0, cliente.parcelas_atrasadas - meses_depois)
                meses_comissao == Max(0, meses_ativo_referencia - parcelas_atrasadas_no_mes)
            IN IF is_canceled_before
               THEN [percentual |-> 0, valor |-> 0, meses_comissao |-> 0]
               ELSE IF meses_comissao >= month_index + 1
               THEN [percentual |-> PercentualDaPosicao(config, month_index),
                     valor |-> ValorComissao(cliente.valor, cliente.taxa_setup,
                                             month_index, vendedor_tier, config),
                     meses_comissao |-> meses_comissao]
               ELSE [percentual |-> 0, valor |-> 0, meses_comissao |-> meses_comissao]

\* get_percentual_comissao_recorrente
GetPercentualComissaoRecorrente(meses_comissao, config) ==
    IF meses_comissao <= 0 THEN 0
    ELSE IF meses_comissao - 1 < Len(config.mrr_recurrence)
    THEN config.mrr_recurrence[meses_comissao]
    ELSE 0

\* fetch_commission_config() as one call made by a commission function.
\* config: the configuration in force, which the fresh cache holds
\* (cache_valido, lines 170-173) or the store gives; falha_config: what the
\* database does when the cache is not fresh.  get_conn() of line 175 stands
\* before the try: when it raises the call raises; when the query raises the
\* except of lines 228-230 returns the default configuration.
ConfigObtida(config, cache_valido, falha_config) ==
    IF cache_valido THEN [raised |-> FALSE, config |-> config]
    ELSE IF falha_config = FalhaConexao THEN [raised |-> TRUE, config |-> DefaultConfig]
    ELSE IF falha_config = FalhaConsulta THEN [raised |-> FALSE, config |-> DefaultConfig]
    ELSE [raised |-> FALSE, config |-> config]

\* percentualComissao (in percent), valorComissao and mesesComissao of a
\* ClienteComissao that map_cliente_to_comissao returned
Comissao(percentual, valor, meses_comissao) ==
    [percentual |-> percentual, valor |-> valor, meses_comissao |-> meses_comissao,
     raised |-> FALSE]

\* the call raised: nothing was returned and the other fields say nothing
ComissaoLevantada ==
    [percentual |-> 0, valor |-> 0, meses_comissao |-> 0, raised |-> TRUE]

\* map_cliente_to_comissao.  mes_hoje: the month of datetime.now(), which
\* stands in for a missing data_adesao; cache_valido, falha_config: the
\* configuration cache and the database when fetch_commission_config is called
\* (line 733 with a reference month, line 417 through calcular_comissao
\* without one and meses_comissao > 0); falha: the database when the
\* historical computation queries it.  The call raises when one of the two
\* does.
MapClienteToComissao(cliente, reference_month, vendedor_tier, config, historico, cache_valido, falha_config, falha, mes_hoje) ==
    LET mes_adesao == IF cliente.data_adesao # SemMes THEN cliente.data_adesao ELSE mes_hoje
        obtida == ConfigObtida(config, cache_valido, falha_config)
    IN IF reference_month # SemMes
       THEN IF obtida.raised THEN ComissaoLevantada
            ELSE LET hist == CalcularComissaoPorHistoricoPagamentos(
                                 cliente, reference_month, obtida.config, "bronze",
                                 historico, falha)
                     est == Estimativa(cliente, mes_adesao, reference_month,
                                       vendedor_tier, obtida.config)
                 IN IF hist.raised THEN ComissaoLevantada
                    ELSE IF hist.posicao >= 0
                    THEN Comissao(hist.percentual, hist.valor, hist.posicao + 1)
                    ELSE Comissao(est.percentual, est.valor, est.meses_comissao)
       ELSE LET meses_comissao == Max(0, cliente.meses_ativo - cliente.parcelas_atrasadas)
            IN IF meses_comissao <= 0
               THEN Comissao(0, 0, meses_comissao)
               ELSE IF obtida.raised THEN ComissaoLevantada
               ELSE Comissao(GetPercentualComissaoRecorrente(meses_comissao, obtida.config),
                             cliente.valor
                                 * GetPercentualComissaoRecorrente(meses_comissao, obtida.config),
                             meses_comissao)

----------------------------------------------------------------------------
(* The commission configuration: table commission_config, the module-level *)
(* cache of api/scripts/vendas.py and the calls that read and write them.  *)
(* A configuration object is a record of the shape of DefaultConfig with   *)
(* the id of its row (0 in the hard-coded default); updated_at is left out.  The event loop of the application is     *)
(* thread 0: it runs the configuration endpoints, update included; the     *)
(* other thread is a worker of the executor, which calls                   *)
(* fetch_commission_config from the commission functions.                  *)

COMMISSION_CONFIG_CACHE_TTL == 3600
PassoRelogio == 3600
MaxRelogio == 3600
MaxUpdates == 1
Threads == {0, 1}
EventLoop == 0

Campos == {"sales_goal", "mrr_tier1", "mrr_tier2", "mrr_tier3", "setup_tier1", "setup_tier2", "setup_tier3", "mrr_recurrence"}

\* Python's `x or d` on a number
Ou(x, d) == IF x = 0 THEN d ELSE x

\* CommissionConfig(...) built from a row of commission_config, as both
\* fetch_commission_config and update_commission_config build it
ConfigDeRow(row) ==
    [id |-> row.id,
     sales_goal |-> Ou(row.sales_goal, 10),
     mrr_tier1 |-> Ou(row.mrr_tier1, 5),
     mrr_tier2 |-> Ou(row.mrr_tier2, 10),
     mrr_tier3 |-> Ou(row.mrr_tier3, 20),
     setup_tier1 |-> Ou(row.setup_tier1, 15),
     setup_tier2 |-> Ou(row.setup_tier2, 25),
     setup_tier3 |-> Ou(row.setup_tier3, 40),
     mrr_recurrence |-> IF row.mrr_recurrence # <<>> THEN row.mrr_recurrence
                        ELSE <<30, 20, 10, 10, 10, 10, 10>>]

\* SELECT ... FROM commission_config ORDER BY id DESC LIMIT 1: <<>> or <<row>>
RowAtiva(tabela) ==
    IF tabela = <<>> THEN <<>> ELSE <<tabela[Len(tabela)]>>

\* UPDATE commission_config SET <supplied fields> WHERE id = (the active row)
UpdateSql(tabela, args) ==
    IF tabela = <<>> THEN tabela
    ELSE [tabela EXCEPT ![Len(tabela)] =
              [f \in Campos \cup {"id"} |-> IF f \in DOMAIN args THEN args[f] ELSE @[f]]]

\* the values an update supplies for a field (CommissionConfigUpdate accepts
\* sales_goal >= 1, rates from 0 to 100 and any list)
ValoresDe(f) ==
    IF f = "sales_goal" THEN {7} ELSE {0, 8}

\* the fields the updates of the model supply
CamposDados == {"sales_goal", "mrr_tier1"}

\* keyword arguments of update_commission_config: a field that is None is
\* absent from the domain
ArgsDeUpdate ==
    UNION {{[f \in S |-> IF f = "sales_goal" THEN g ELSE v] : g \in ValoresDe("sales_goal"), v \in ValoresDe("mrr_tier1")} : S \in SUBSET CamposDados}

\* _get_default_commission_config()
GetDefaultCommissionConfig ==
    [id |-> 0, sales_goal |-> 10,
     mrr_tier1 |-> 5, mrr_tier2 |-> 10, mrr_tier3 |-> 20,
     setup_tier1 |-> 15, setup_tier2 |-> 25, setup_tier3 |-> 40,
     mrr_recurrence |-> <<30, 20, 10, 10, 10, 10, 10>>]

SemChamada == [fn |-> "none", args |-> <<>>, apos |-> <<>>, iniciados |-> 0]

SemRetorno == [fn |-> "none", args |-> <<>>, raised |-> FALSE, config |-> <<>>, apos |-> <<>>, semOutroUpdate |-> FALSE, falha |-> "nenhuma", origem |-> "none", quando |-> 0]

\* the call of a thread ends: what it returned or raised; falha tells what
\* the call met in the store ("nenhuma", "conexao": get_conn raised,
\* "consulta": the statement raised, "sem_row": the table has no row), origem
\* where the returned object comes from ("cache", "store", "default", "none")
\* and quando the time of the return
Devolver(t, raised, config, falha, origem) ==
    /\ devolvido' = [fn |-> inicio'[t].fn, args |-> inicio'[t].args, raised |-> raised,
                     config |-> config, apos |-> inicio'[t].apos,
                     semOutroUpdate |-> (inicio'[t].iniciados = updIniciados'),
                     falha |-> falha, origem |-> origem, quando |-> relogio]
    /\ pc' = [pc EXCEPT ![t] = "idle"]

\* a call starts in thread t
Iniciar(t, nome, args) ==
    inicio' = [inicio EXCEPT ![t] =
        [fn |-> nome, args |-> args,
         apos |-> IF updIniciados = updFeitos THEN ultimoUpdate ELSE <<>>,
         iniciados |-> updIniciados]]

\* whether the cache would answer a fetch that ran lines 170-173 now
CacheValido ==
    /\ commission_config_cache # <<>>
    /\ commission_config_cache_time # <<>>
    /\ relogio - commission_config_cache_time[1] < COMMISSION_CONFIG_CACHE_TTL

(* fetch_commission_config reads and writes the two module-level variables *)
(* in separate statements, and a thread can be switched between any two of *)
(* them.  A call in thread t stands at                                      *)
(*   "fetch_time"         line 170, its second operand: the cache was set   *)
(*   "fetch_elapsed"      lines 171-172: the cache time was set             *)
(*   "fetch_return"       line 173: the cache was younger than the TTL      *)
(*   "fetch_ler"          line 175: the store is to be read                 *)
(*   "fetch_gravar"       line 218, "fetch_gravar_time" line 219            *)
(* update_commission_config stands at "update_limpar" (line 253, called     *)
(* from line 387) and "update_limpar_time" (line 254);                      *)
(* clear_commission_config_cache called alone at "clear_time" (line 254).   *)

\* fetch_commission_config, line 170, first operand: _commission_config_cache
\* is read
LerCache(t) ==
    pc' = [pc EXCEPT ![t] = IF commission_config_cache # <<>> THEN "fetch_time" ELSE "fetch_ler"]

\* fetch_commission_config starts in thread t and reads the cache
FetchIniciar(t) ==
    /\ pc[t] = "idle"
    /\ Iniciar(t, "fetch", <<>>)
    /\ LerCache(t)
    /\ UNCHANGED <<commission_config, commission_config_cache, commission_config_cache_time, relogio, lido, devolvido, updIniciados, updFeitos, ultimoUpdate, mudouEm, lidos>>

\* line 170, second operand: _commission_config_cache_time is read
FetchLerTempo(t) ==
    /\ pc[t] = "fetch_time"
    /\ pc' = [pc EXCEPT ![t] = IF commission_config_cache_time # <<>>
                               THEN "fetch_elapsed" ELSE "fetch_ler"]
    /\ UNCHANGED <<commission_config, commission_config_cache, commission_config_cache_time, relogio, lido, inicio, devolvido, updIniciados, updFeitos, ultimoUpdate, mudouEm, lidos>>

\* lines 171-172: datetime.now() - _commission_config_cache_time, which raises
\* TypeError when the time has been cleared since line 170 read it, and the
\* comparison with the TTL
FetchCalcularIdade(t) ==
    /\ pc[t] = "fetch_elapsed"
    /\ UNCHANGED <<commission_config, commission_config_cache, commission_config_cache_time, relogio, lido, inicio, updIniciados, updFeitos, ultimoUpdate, mudouEm, lidos>>
    /\ IF commission_config_cache_time = <<>>
       THEN Devolver(t, TRUE, <<>>, "cache_limpo", "none")
       ELSE /\ pc' = [pc EXCEPT ![t] =
                         IF relogio - commission_config_cache_time[1] < COMMISSION_CONFIG_CACHE_TTL
                         THEN "fetch_return" ELSE "fetch_ler"]
            /\ UNCHANGED devolvido

\* line 173: _commission_config_cache is read again and returned, None when it
\* has been cleared since line 170 read it
FetchDevolverCache(t) ==
    /\ pc[t] = "fetch_return"
    /\ UNCHANGED <<commission_config, commission_config_cache, commission_config_cache_time, relogio, lido, inicio, updIniciados, updFeitos, ultimoUpdate, mudouEm, lidos>>
    /\ Devolver(t, FALSE, commission_config_cache, "nenhuma", "cache")

\* a fetch that would also keep the hard-coded default in the cache
FetchLerGuardandoDefault(t, conexao_falha, consulta_falha) ==
    /\ pc[t] = "fetch_ler"
    /\ UNCHANGED <<commission_config, relogio, inicio, updIniciados, updFeitos, ultimoUpdate, mudouEm>>
    /\ IF conexao_falha
       THEN /\ Devolver(t, TRUE, <<>>, "conexao", "none")
            /\ UNCHANGED <<lido, lidos, commission_config_cache, commission_config_cache_time>>
       ELSE IF consulta_falha \/ RowAtiva(commission_config) = <<>>
       THEN /\ Devolver(t, FALSE, <<GetDefaultCommissionConfig>>, IF consulta_falha THEN "consulta" ELSE "sem_row", "default")
            /\ commission_config_cache' = <<GetDefaultCommissionConfig>>
            /\ commission_config_cache_time' = <<relogio>>
            /\ UNCHANGED <<lido, lidos>>
       ELSE /\ lido' = [lido EXCEPT ![t] = <<ConfigDeRow(RowAtiva(commission_config)[1])>>]
            /\ lidos' = lidos \cup {ConfigDeRow(RowAtiva(commission_config)[1])}
            /\ pc' = [pc EXCEPT ![t] = "fetch_gravar"]
            /\ UNCHANGED <<devolvido, commission_config_cache, commission_config_cache_time>>

\* fetch_commission_config, lines 175-216 and 224-232: get_conn, the SELECT
\* and the configuration object built from the row; the default when the
\* table has no row or the query raises; when get_conn raises the call raises
FetchLer(t, conexao_falha, consulta_falha) ==
    /\ pc[t] = "fetch_ler"
    /\ UNCHANGED <<commission_config, commission_config_cache, commission_config_cache_time, relogio, inicio, updIniciados, updFeitos, ultimoUpdate, mudouEm>>
    /\ IF conexao_falha
       THEN /\ Devolver(t, TRUE, <<>>, "conexao", "none")
            /\ UNCHANGED <<lido, lidos>>
       ELSE IF consulta_falha \/ RowAtiva(commission_config) = <<>>
       THEN /\ Devolver(t, FALSE, <<GetDefaultCommissionConfig>>, IF consulta_falha THEN "consulta" ELSE "sem_row", "default")
            /\ UNCHANGED <<lido, lidos>>
       ELSE /\ lido' = [lido EXCEPT ![t] = <<ConfigDeRow(RowAtiva(commission_config)[1])>>]
            /\ lidos' = lidos \cup {ConfigDeRow(RowAtiva(commission_config)[1])}
            /\ pc' = [pc EXCEPT ![t] = "fetch_gravar"]
            /\ UNCHANGED devolvido

\* fetch_commission_config, line 218: _commission_config_cache = config
FetchGravar(t) ==
    /\ pc[t] = "fetch_gravar"
    /\ commission_config_cache' = lido[t]
    /\ pc' = [pc EXCEPT ![t] = "fetch_gravar_time"]
    /\ UNCHANGED <<commission_config, commission_config_cache_time, relogio, lido, inicio, devolvido, updIniciados, updFeitos, ultimoUpdate, mudouEm, lidos>>

\* lines 219-222: _commission_config_cache_time = datetime.now() and the
\* return of the configuration built from the row
FetchGravarTempo(t) ==
    /\ pc[t] = "fetch_gravar_time"
    /\ commission_config_cache_time' = <<relogio>>
    /\ UNCHANGED <<commission_config, commission_config_cache, relogio, lido, inicio, updIniciados, updFeitos, ultimoUpdate, mudouEm, lidos>>
    /\ Devolver(t, FALSE, lido[t], "nenhuma", "store")

\* update_commission_config(**args), lines 305-385: get_conn, the UPDATE
\* with its commit and the configuration object built from the returned row;
\* without any field it goes on as fetch_commission_config() (line 348)
UpdateExecutar(args, conexao_falha, consulta_falha) ==
    /\ pc[EventLoop] = "idle"
    /\ updIniciados < MaxUpdates
    /\ Iniciar(EventLoop, "update", args)
    /\ IF conexao_falha
       THEN /\ UNCHANGED <<commission_config, lido, updIniciados, mudouEm>>
            /\ Devolver(EventLoop, TRUE, <<>>, "conexao", "none")
       ELSE IF DOMAIN args = {}
       THEN /\ UNCHANGED <<commission_config, lido, devolvido, updIniciados, mudouEm>>
            /\ LerCache(EventLoop)
       ELSE IF consulta_falha \/ RowAtiva(commission_config) = <<>>
       THEN /\ UNCHANGED <<commission_config, lido, updIniciados, mudouEm>>
            /\ Devolver(EventLoop, TRUE, <<>>, IF consulta_falha THEN "consulta" ELSE "sem_row", "none")
       ELSE /\ commission_config' = UpdateSql(commission_config, args)
            /\ mudouEm' = IF commission_config' # commission_config THEN <<relogio>> ELSE mudouEm
            /\ lido' = [lido EXCEPT ![EventLoop] = <<ConfigDeRow(RowAtiva(commission_config')[1])>>]
            /\ updIniciados' = updIniciados + 1
            /\ pc' = [pc EXCEPT ![EventLoop] = "update_limpar"]
            /\ UNCHANGED devolvido
    /\ UNCHANGED <<commission_config_cache, commission_config_cache_time, relogio, updFeitos, ultimoUpdate, lidos>>

\* clear_commission_config_cache(), line 253: _commission_config_cache = None.
\* The event loop runs it from update_commission_config (line 387) and from
\* POST /vendas/cache/clear.
ClearCommissionConfigCache ==
    /\ \/ /\ pc[EventLoop] = "update_limpar"
          /\ pc' = [pc EXCEPT ![EventLoop] = "update_limpar_time"]
       \/ /\ pc[EventLoop] = "idle"
          /\ commission_config_cache # <<>> \/ commission_config_cache_time # <<>>
          /\ pc' = [pc EXCEPT ![EventLoop] = "clear_time"]
    /\ commission_config_cache' = <<>>
    /\ UNCHANGED <<commission_config, commission_config_cache_time, relogio, lido, inicio, devolvido, updIniciados, updFeitos, ultimoUpdate, mudouEm, lidos>>

\* clear_commission_config_cache(), line 254: _commission_config_cache_time =
\* None, and the return of the call alone
ClearTempo ==
    /\ pc[EventLoop] = "clear_time"
    /\ commission_config_cache_time' = <<>>
    /\ pc' = [pc EXCEPT ![EventLoop] = "idle"]
    /\ UNCHANGED <<commission_config, commission_config_cache, relogio, lido, inicio, devolvido, updIniciados, updFeitos, ultimoUpdate, mudouEm, lidos>>

\* line 254 run from update_commission_config, and lines 389-390: the return
\* of the configuration built from the updated row
UpdateLimpar ==
    /\ pc[EventLoop] = "update_limpar_time"
    /\ commission_config_cache_time' = <<>>
    /\ updFeitos' = updFeitos + 1
    /\ ultimoUpdate' = <<[config |-> lido[EventLoop][1], args |-> inicio[EventLoop].args]>>
    /\ UNCHANGED <<commission_config, commission_config_cache, relogio, lido, inicio, updIniciados, mudouEm, lidos>>
    /\ Devolver(EventLoop, FALSE, lido[EventLoop], "nenhuma", "store")

\* time passes
PassarTempo ==
    /\ relogio < MaxRelogio
    /\ relogio' = relogio + PassoRelogio
    /\ UNCHANGED <<commission_config, commission_config_cache, commission_config_cache_time, pc, lido, inicio, devolvido, updIniciados, updFeitos, ultimoUpdate, mudouEm, lidos>>

\* the row the deployment starts with holds the default values
RowInicial ==
    [f \in Campos \cup {"id"} |-> IF f = "id" THEN 1 ELSE DefaultConfig[f]]

InitConfig ==
    /\ commission_config \in {<<>>, <<RowInicial>>}
    /\ commission_config_cache = <<>>
    /\ commission_config_cache_time = <<>>
    /\ relogio = 0
    /\ pc = [t \in Threads |-> "idle"]
    /\ lido = [t \in Threads |-> <<>>]
    /\ inicio = [t \in Threads |-> SemChamada]
    /\ devolvido = SemRetorno
    /\ updIniciados = 0
    /\ updFeitos = 0
    /\ ultimoUpdate = <<>>
    /\ mudouEm = <<>>
    /\ lidos = {}

\* the configuration a call of fetch_commission_config() gives while the
\* store answers: the cached object while the cache is fresh, else the object
\* built from the active row, the default when the table has none
ConfigEmVigor ==
    IF CacheValido THEN commission_config_cache[1]
    ELSE IF RowAtiva(commission_config) # <<>> THEN ConfigDeRow(RowAtiva(commission_config)[1])
    ELSE GetDefaultCommissionConfig

\* fetch_commission_config() called by a commission function, no other
\* thread running meanwhile: what the call leaves in the module-level cache.
\* chamou: the function reached the call; falha_config: what the database
\* does when the cache is not fresh.  When the store was read the object
\* built from the row and the time are cached (lines 218-219); a fresh cache,
\* a failing connection, a failing query and an empty table leave the cache
\* as it was.
FetchConfigNaChamada(chamou, falha_config) ==
    /\ IF chamou /\ ~CacheValido /\ falha_config = SemFalha /\ RowAtiva(commission_config) # <<>>
       THEN /\ commission_config_cache' = <<ConfigDeRow(RowAtiva(commission_config)[1])>>
            /\ commission_config_cache_time' = <<relogio>>
            /\ lidos' = lidos \cup {ConfigDeRow(RowAtiva(commission_config)[1])}
       ELSE UNCHANGED <<commission_config_cache, commission_config_cache_time, lidos>>
    /\ UNCHANGED <<commission_config, relogio, pc, lido, inicio, devolvido, updIniciados, updFeitos, ultimoUpdate, mudouEm>>

\* whether map_cliente_to_comissao reaches fetch_commission_config(): at line
\* 733 with a reference month, at line 417 (through calcular_comissao) without
\* one when meses_comissao > 0
MapChamaFetchConfig(cliente, reference_month) ==
    reference_month # SemMes \/ cliente.meses_ativo - cliente.parcelas_atrasadas > 0

\* a sequence sorted by a strict order, menor[i, j] telling whether row i of
\* seq comes before row j; rows that the order does not tell apart stay in
\* the order they have in seq (ORDER BY over rows delivered in the order of
\* seq)
Ordenar(seq, menor) ==
    LET n == Len(seq)
        antes(i) == {j \in 1..n : menor[j, i] \/ (~menor[i, j] /\ j < i)}
    IN [k \in 1..n |-> seq[CHOOSE i \in 1..n : Cardinality(antes(i)) = k - 1]]

----------------------------------------------------------------------------
(* Calls of the commission functions: one call per behaviour, its arguments *)
(* drawn from the sets below.                                               *)

MaxVendas == 12         \* largest monthly sales count given to get_tier_info

AnosAdesao == {2024, 2025}
MesesDeAdesao == {<<a, m>> : a \in AnosAdesao, m \in 1..12}

SalesGoals == {3, 6, 7, 10}
Configs == {[DefaultConfig EXCEPT !.sales_goal = g] : g \in SalesGoals}

Tiers == {"bronze", "prata", "ouro"}

\* signup in May 2025 (cycle 2025-06 .. 2025-12), in November 2024 (cycle
\* 2024-12 .. 2025-06, across the year end), or missing
DatasAdesao == {SemMes, <<2025, 5>>, <<2024, 11>>}
DatasCancelamento == {SemMes, <<2025, 8>>}
MesesReferencia ==
    {SemMes, <<2024, 11>>, <<2024, 12>>, <<2025, 5>>, <<2025, 6>>, <<2025, 7>>,
     <<2025, 8>>, <<2025, 9>>, <<2025, 12>>, <<2026, 1>>}
MesHojeCalc == <<2025, 9>>

Clientes ==
    [cnpj : {"", "c1"},
     data_adesao : DatasAdesao,
     data_cancelamento : DatasCancelamento,
     valor : {1000},
     taxa_setup : {0, 500},
     meses_ativo : {0, 1, 2, 8},
     parcelas_atrasadas : {0, 1, 2},
     meses_ativo_referencia : {0, 1, 2}]

\* paid installments of c1 due in May, August and November 2025
Historicos ==
    SUBSET {[cnpj |-> "c1", vencimento |-> <<2025, 5>>, pago |-> TRUE],
            [cnpj |-> "c1", vencimento |-> <<2025, 8>>, pago |-> TRUE],
            [cnpj |-> "c1", vencimento |-> <<2025, 11>>, pago |-> TRUE]}

ChamarGetCommissionMonths ==
    /\ fn = "none"
    /\ \E start_month \in MesesDeAdesao :
           /\ entrada' = [start_month |-> start_month]
           /\ saida' = GetCommissionMonths(start_month)
    /\ fn' = "_get_commission_months"
    /\ UNCHANGED <<ledgerVars, configVars, concVars>>

ChamarGetTierInfo ==
    /\ fn = "none"
    /\ \E vendas_mes \in 0..MaxVendas, config \in Configs :
           /\ entrada' = [vendas_mes |-> vendas_mes, config |-> config]
           /\ saida' = GetTierInfo(vendas_mes, config)
    /\ fn' = "get_tier_info"
    /\ UNCHANGED <<ledgerVars, configVars, concVars>>

\* the arguments of one call of map_cliente_to_comissao and what it gave
EntradaMap(cliente, reference_month, vendedor_tier, historico, cache_valido, falha_config, falha) ==
    [cliente |-> cliente, reference_month |-> reference_month,
     vendedor_tier |-> vendedor_tier, config |-> ConfigEmVigor,
     historico |-> historico, cache_valido |-> cache_valido,
     falha_config |-> falha_config, falha |-> falha, mes_hoje |-> MesHojeCalc]

\* the configuration cache and the database as a call finds them: <<cache
\* fresh, what the database does when the configuration is read from it>>;
\* whether the cache is fresh is the state of the module-level variables
AcessosConfig == IF CacheValido THEN {<<TRUE, SemFalha>>} ELSE {FALSE} \X Falhas

\* map_cliente_to_comissao while the database answers, the configuration
\* cache fresh or not
ChamarMapClienteToComissao ==
    /\ fn = "none"
    /\ \E cliente \in Clientes, reference_month \in MesesReferencia,
          vendedor_tier \in Tiers, historico \in Historicos :
           /\ entrada' = EntradaMap(cliente, reference_month, vendedor_tier, historico,
                                    CacheValido, SemFalha, SemFalha)
           /\ saida' = MapClienteToComissao(cliente, reference_month, vendedor_tier,
                                            ConfigEmVigor, historico, CacheValido,
                                            SemFalha, SemFalha, MesHojeCalc)
           /\ FetchConfigNaChamada(MapChamaFetchConfig(cliente, reference_month), SemFalha)
    /\ fn' = "map_cliente_to_comissao"
    /\ UNCHANGED <<ledgerVars, concVars>>

\* customer records for the calls made while the database fails
ClientesComFalha ==
    [cnpj : {"", "c1"},
     data_adesao : {SemMes, <<2025, 5>>},
     data_cancelamento : DatasCancelamento,
     valor : {1000},
     taxa_setup : {0, 500},
     meses_ativo : {0, 2, 8},
     parcelas_atrasadas : {0, 2},
     meses_ativo_referencia : {0, 2}]

\* map_cliente_to_comissao while the database refuses the connection or raises
\* on the query, for the configuration, for the payment history or for both
ChamarMapClienteToComissaoComFalha ==
    /\ fn = "none"
    /\ \E cliente \in ClientesComFalha,
          reference_month \in {SemMes, <<2025, 5>>, <<2025, 6>>, <<2025, 7>>, <<2025, 9>>},
          vendedor_tier \in Tiers, historico \in Historicos,
          acesso \in AcessosConfig, falha \in Falhas :
           /\ acesso[2] # SemFalha \/ falha # SemFalha
           /\ entrada' = EntradaMap(cliente, reference_month, vendedor_tier, historico,
                                    acesso[1], acesso[2], falha)
           /\ saida' = MapClienteToComissao(cliente, reference_month, vendedor_tier,
                                            ConfigEmVigor, historico, acesso[1],
                                            acesso[2], falha, MesHojeCalc)
           /\ FetchConfigNaChamada(MapChamaFetchConfig(cliente, reference_month), acesso[2])
    /\ fn' = "map_cliente_to_comissao"
    /\ UNCHANGED <<ledgerVars, concVars>>

\* GREATEST(1, x)
Greatest1(x) == IF x > 1 THEN x ELSE 1

\* the meses_ativo column of SELECT_CLIENTES_COMISSAO(_BY_MONTH): months from
\* data_adesao to ate, plus 1, at least 1 (GREATEST ignores a NULL argument)
MesesAte(data_adesao, ate) ==
    IF data_adesao = SemMes THEN 1 ELSE Greatest1(MesOrd(ate) - MesOrd(data_adesao) + 1)

\* ORDER BY data_adesao DESC: whether row a comes before row b; a NULL date
\* sorts as larger than every date, so first
AdesaoDepois(a, b) ==
    /\ b.data_adesao # SemMes
    /\ a.data_adesao = SemMes \/ MesOrd(a.data_adesao) > MesOrd(b.data_adesao)

\* SELECT_CLIENTES_COMISSAO_BY_MONTH (month given) and SELECT_CLIENTES_COMISSAO
\* (no month) over a table clientes_atual, tabela giving its rows in the order
\* the scan delivers them: the rows with valor > 0 (and signup up to the end
\* of the month), with the selected columns, latest signup first; cnpj is not
\* one of the columns
SelectClientesComissao(tabela, month, mes_hoje) ==
    LET passa(r) == /\ r.valor > 0
                    /\ month # SemMes =>
                           (r.data_adesao # SemMes /\ MesOrd(r.data_adesao) <= MesOrd(month))
        linha(r) == [cnpj |-> "",
                     data_adesao |-> r.data_adesao,
                     data_cancelamento |-> r.data_cancelamento,
                     valor |-> r.valor,
                     taxa_setup |-> r.taxa_setup,
                     parcelas_atrasadas |-> r.parcelas_atrasadas,
                     meses_ativo |-> MesesAte(r.data_adesao, mes_hoje),
                     meses_ativo_referencia |->
                         IF month # SemMes THEN MesesAte(r.data_adesao, month) ELSE 0]
        passam == SelectSeq(tabela, passa)
        rows == Ordenar(passam, [i, j \in 1..Len(passam) |-> AdesaoDepois(passam[i], passam[j])])
    IN [k \in 1..Len(rows) |-> linha(rows[k])]

\* what a function that returns a list gave back: the list, or raised (the
\* list then says nothing)
Lista(linhas) == [raised |-> FALSE, linhas |-> linhas]
ListaLevantada == [raised |-> TRUE, linhas |-> <<>>]

\* fetch_all_clientes_comissao(month): one commission line per selected row.
\* get_conn() of line 1109 stands before the try: when it raises the call
\* raises (falha = FalhaConexao).  The query and the calls of
\* map_cliente_to_comissao are inside the try: when the query raises, or when
\* the mapping of a row does (fetch_commission_config finds no fresh cache and
\* no connection), the except of lines 1131-1133 returns the empty list.
FetchAllClientesComissao(tabela, month, config, historico, cache_valido, falha_config, falha, mes_hoje) ==
    IF falha = FalhaConexao THEN ListaLevantada
    ELSE IF falha = FalhaConsulta THEN Lista(<<>>)
    ELSE LET rows == SelectClientesComissao(tabela, month, mes_hoje)
             linha(k) == MapClienteToComissao(rows[k], month, "bronze", config, historico,
                                              cache_valido, falha_config, falha, mes_hoje)
         IN IF \E k \in 1..Len(rows) : linha(k).raised
            THEN Lista(<<>>)
            ELSE Lista([k \in 1..Len(rows) |-> linha(k)])

\* rows of clientes_atual: the client c1 of the payment history
ClientesAtual ==
    [cnpj : {"c1"},
     data_adesao : DatasAdesao,
     data_cancelamento : DatasCancelamento,
     valor : {0, 1000},
     taxa_setup : {0, 500},
     parcelas_atrasadas : {0, 1, 2}]

\* tables clientes_atual of two rows, in both scan orders
TabelasDeDoisClientes ==
    LET rows == [cnpj : {"c1"}, data_adesao : DatasAdesao, data_cancelamento : {SemMes},
                 valor : {1000}, taxa_setup : {0}, parcelas_atrasadas : {0}]
    IN {<<a, b>> : a \in rows, b \in rows}

\* whether fetch_all_clientes_comissao reaches fetch_commission_config(): the
\* query gave a row whose mapping calls it
FetchAllChamaFetchConfig(tabela, month, falha, mes_hoje) ==
    /\ falha = SemFalha
    /\ \E k \in 1..Len(SelectClientesComissao(tabela, month, mes_hoje)) :
           MapChamaFetchConfig(SelectClientesComissao(tabela, month, mes_hoje)[k], month)

ChamarFetchAllClientesComissao ==
    /\ fn = "none"
    /\ \E tabela \in {<<r>> : r \in ClientesAtual} \cup TabelasDeDoisClientes,
          month \in MesesReferencia, historico \in Historicos,
          acesso \in AcessosConfig, falha \in Falhas :
           /\ Len(tabela) = 2 => historico = {}
           /\ entrada' = [tabela |-> tabela, month |-> month, config |-> ConfigEmVigor,
                          historico |-> historico, cache_valido |-> acesso[1],
                          falha_config |-> acesso[2], falha |-> falha,
                          mes_hoje |-> MesHojeCalc]
           /\ saida' = FetchAllClientesComissao(tabela, month, ConfigEmVigor, historico,
                                                acesso[1], acesso[2], falha, MesHojeCalc)
           /\ FetchConfigNaChamada(FetchAllChamaFetchConfig(tabela, month, falha, MesHojeCalc), acesso[2])
    /\ fn' = "fetch_all_clientes_comissao"
    /\ UNCHANGED <<ledgerVars, concVars>>

\* a status that would look at the overdue count of today only
MapStatusAtual(cliente, is_cancelado, reference_month) ==
    IF is_cancelado THEN "cancelado"
    ELSE IF cliente.parcelas_atrasadas > 0 THEN "inadimplente" ELSE "ativo"

\* map_status(cliente, reference_month); is_cancelado: the status of the
\* record is one of 'churns', 'cancelados', 'solicitar cancelamento' or its
\* pipeline is the one of cancellations (lines 538-543)
MapStatus(cliente, is_cancelado, reference_month) ==
    LET meses_ate_referencia == MesOrd(reference_month) - MesOrd(cliente.data_adesao)
        estava_inadimplente_no_mes ==
            IF cliente.data_adesao = SemMes \/ cliente.meses_ativo <= 0 THEN FALSE
            ELSE IF meses_ate_referencia <= 0 THEN FALSE
            ELSE cliente.parcelas_atrasadas
                     - (cliente.meses_ativo - meses_ate_referencia) > 0
    IN IF /\ reference_month # SemMes /\ is_cancelado
          /\ cliente.data_cancelamento # SemMes
          /\ MesMaior(cliente.data_cancelamento, reference_month)
       THEN (IF estava_inadimplente_no_mes THEN "inadimplente" ELSE "ativo")
       ELSE IF is_cancelado THEN "cancelado"
       ELSE IF reference_month # SemMes
       THEN (IF estava_inadimplente_no_mes THEN "inadimplente" ELSE "ativo")
       ELSE IF cliente.parcelas_atrasadas > 0 THEN "inadimplente" ELSE "ativo"

\* customer rows as fetch_all_clientes_comissao hands them over (no cnpj), up
\* to five months after the signup of May 2025
ClientesComStatus ==
    [cnpj : {""},
     data_adesao : {<<2025, 5>>},
     data_cancelamento : DatasCancelamento,
     valor : {1000},
     taxa_setup : {0},
     meses_ativo : {0, 1, 3, 5},
     parcelas_atrasadas : {0, 1, 2},
     meses_ativo_referencia : 0..5]

\* map_cliente_to_comissao, with the status of the returned ClienteComissao
\* (line 693) next to its commission
ChamarMapClienteComStatus ==
    /\ fn = "none"
    /\ \E cliente \in ClientesComStatus, is_cancelado \in BOOLEAN,
          reference_month \in MesesReferencia :
           /\ entrada' = [cliente |-> cliente, is_cancelado |-> is_cancelado,
                          reference_month |-> reference_month,
                          vendedor_tier |-> "bronze", config |-> ConfigEmVigor,
                          historico |-> {}, cache_valido |-> CacheValido,
                          falha_config |-> SemFalha, falha |-> SemFalha,
                          mes_hoje |-> MesHojeCalc]
           /\ FetchConfigNaChamada(MapChamaFetchConfig(cliente, reference_month), SemFalha)
           /\ saida' = LET comissao == MapClienteToComissao(cliente, reference_month, "bronze",
                                            ConfigEmVigor, {}, CacheValido, SemFalha, SemFalha,
                                            MesHojeCalc)
                       IN [status |-> MapStatus(cliente, is_cancelado, reference_month),
                           percentual |-> comissao.percentual,
                           valor |-> comissao.valor,
                           meses_comissao |-> comissao.meses_comissao,
                           raised |-> comissao.raised]
    /\ fn' = "map_cliente_to_comissao"
    /\ UNCHANGED <<ledgerVars, concVars>>

\* the place of a seller's name in the order of the database's collation
OrdemVendedor(v) ==
    CASE v = "Ana" -> 1 [] v = "Bia" -> 2 [] OTHER -> 0

\* ORDER BY ck.vendedor, ck.data_adesao, hp.vencimento: whether the joined
\* row a comes before the joined row b
ParcelaAntes(a, b) ==
    \/ OrdemVendedor(a.vendedor) < OrdemVendedor(b.vendedor)
    \/ /\ a.vendedor = b.vendedor
       /\ \/ MesOrd(a.data_adesao) < MesOrd(b.data_adesao)
          \/ /\ a.data_adesao = b.data_adesao
             /\ MesOrd(a.vencimento) < MesOrd(b.vencimento)

\* SELECT_PARCELAS_PAGAS_POR_MES_COMISSAO over clientes_kommo joined with
\* companies_kommo (tabela: rows [cnpj, vendedor, data_adesao,
\* data_cancelamento, valor, taxa_setup]) and historico_pagamentos
\* (pagamentos: rows [cnpj, vencimento, parcela, pago]), both in the order
\* the scan delivers them: one row per customer and paid installment of its
\* cnpj, for the customers with a signup date and a seller that is neither
\* NULL, '' nor 'Não identificado' and the installments whose due month plus
\* one month is mes_comissao and whose position (due month minus signup
\* month) is between 0 and 6; ordered by seller, signup date and due date.
\* Of the selected columns cliente_id, cliente_nome and data_pagamento are
\* left out.
SelectParcelasPagasPorMesComissao(tabela, pagamentos, mes_comissao) ==
    LET m == Len(pagamentos)
        juncao == [k \in 1..(Len(tabela) * m) |->
                      [ck |-> tabela[((k - 1) \div m) + 1], hp |-> pagamentos[((k - 1) % m) + 1]]]
        posicao(x) == MesOrd(x.hp.vencimento) - MesOrd(x.ck.data_adesao)
        passa(x) == /\ x.hp.cnpj = x.ck.cnpj
                    /\ x.hp.pago
                    /\ x.ck.data_adesao # SemMes
                    /\ x.ck.vendedor # None
                    /\ x.ck.vendedor \notin {"Não identificado", ""}
                    /\ MesSeguinte(x.hp.vencimento) = mes_comissao
                    /\ posicao(x) >= 0
                    /\ posicao(x) <= 6
        linha(x) == [vendedor |-> x.ck.vendedor,
                     cnpj |-> x.ck.cnpj,
                     data_adesao |-> x.ck.data_adesao,
                     data_cancelamento |-> x.ck.data_cancelamento,
                     mrr |-> x.ck.valor,
                     taxa_setup |-> x.ck.taxa_setup,
                     vencimento |-> x.hp.vencimento,
                     numero_parcela |-> x.hp.parcela,
                     posicao_ciclo |-> posicao(x)]
        rows == SelectSeq(juncao, passa)
        linhas == [k \in 1..Len(rows) |-> linha(rows[k])]
    IN Ordenar(linhas, [i, j \in 1..Len(linhas) |-> ParcelaAntes(linhas[i], linhas[j])])

\* the commission line of lines 1068-1092 for a row of the query
\* (valor_comissao in hundredths of the currency unit)
LinhaComissaoHistorico(parcela, mes_referencia, config) ==
    [vendedor |-> parcela.vendedor,
     cnpj |-> parcela.cnpj,
     posicao_ciclo |-> parcela.posicao_ciclo,
     percentual_comissao |-> PercentualDaPosicao(config, parcela.posicao_ciclo),
     valor_comissao |-> (parcela.mrr * PercentualDaPosicao(config, parcela.posicao_ciclo))
                        + (IF parcela.posicao_ciclo = 0 /\ parcela.taxa_setup > 0
                           THEN (parcela.taxa_setup * config.setup_tier1)
                           ELSE 0),
     vencimento_parcela |-> parcela.vencimento,
     mes_comissao |-> mes_referencia]

\* fetch_parcelas_pagas_mes_comissao(mes_comissao): the rows of the query;
\* get_conn() of line 877 stands before the try, so the call raises when it
\* does; the empty list when the query raises (lines 893-895)
FetchParcelasPagasMesComissao(tabela, historico, mes_comissao, falha) ==
    IF falha = FalhaConexao THEN ListaLevantada
    ELSE IF falha = FalhaConsulta THEN Lista(<<>>)
    ELSE Lista(SelectParcelasPagasPorMesComissao(tabela, historico, mes_comissao))

\* a bulk computation without the churn rule
FetchComissoesPorHistoricoSemChurn(tabela, historico, mes_referencia, config, cache_valido, falha_config, falha) ==
    LET obtida == ConfigObtida(config, cache_valido, falha_config)
        parcelas == FetchParcelasPagasMesComissao(tabela, historico, mes_referencia, falha)
        calcula(p) == p.posicao_ciclo >= 0 /\ p.posicao_ciclo < 7
        pagas == SelectSeq(parcelas.linhas, calcula)
    IN IF obtida.raised \/ parcelas.raised THEN ListaLevantada
       ELSE Lista([k \in 1..Len(pagas) |->
                      LinhaComissaoHistorico(pagas[k], mes_referencia, obtida.config)])

\* fetch_comissoes_por_historico(mes_referencia): one commission line per paid
\* installment of the month, except those due after the customer's cancellation
\* month.  It raises when fetch_commission_config (line 1036) or
\* fetch_parcelas_pagas_mes_comissao (line 1037) does; no line when the query
\* of the installments raises.
FetchComissoesPorHistorico(tabela, historico, mes_referencia, config, cache_valido, falha_config, falha) ==
    LET obtida == ConfigObtida(config, cache_valido, falha_config)
        parcelas == FetchParcelasPagasMesComissao(tabela, historico, mes_referencia, falha)
        calcula(p) == /\ p.posicao_ciclo >= 0 /\ p.posicao_ciclo < 7
                      /\ ~(/\ p.data_cancelamento # SemMes
                           /\ MesMaior(p.vencimento, p.data_cancelamento))
        pagas == SelectSeq(parcelas.linhas, calcula)
    IN IF obtida.raised \/ parcelas.raised THEN ListaLevantada
       ELSE Lista([k \in 1..Len(pagas) |->
                      LinhaComissaoHistorico(pagas[k], mes_referencia, obtida.config)])

\* rows of clientes_kommo joined with companies_kommo: the customer c1 of
\* the payment history, its seller identified ("Ana") or not
ClientesKommo ==
    [cnpj : {"c1"},
     vendedor : {"Ana", "", "Não identificado", None},
     data_adesao : DatasAdesao,
     data_cancelamento : DatasCancelamento,
     valor : {1000},
     taxa_setup : {0, 500}]

\* tables of two customers of the company c1, in both scan orders
TabelasDeDoisKommo ==
    LET rows == [cnpj : {"c1"}, vendedor : {"Ana", "Bia"},
                 data_adesao : {<<2025, 5>>, <<2024, 11>>},
                 data_cancelamento : {SemMes}, valor : {1000}, taxa_setup : {0}]
    IN {<<a, b>> : a \in rows, b \in rows}

\* historico_pagamentos in the order the scan delivers it: up to two of the
\* paid installments of c1 due in May, August (two of them) and November 2025
Pagamentos ==
    LET rows == {[cnpj |-> "c1", vencimento |-> <<2025, 5>>, parcela |-> 1, pago |-> TRUE],
                 [cnpj |-> "c1", vencimento |-> <<2025, 8>>, parcela |-> 4, pago |-> TRUE],
                 [cnpj |-> "c1", vencimento |-> <<2025, 8>>, parcela |-> 5, pago |-> TRUE],
                 [cnpj |-> "c1", vencimento |-> <<2025, 11>>, parcela |-> 7, pago |-> TRUE]}
    IN {<<>>} \cup {<<a>> : a \in rows} \cup {x \in rows \X rows : x[1] # x[2]}

ChamarFetchComissoesPorHistorico ==
    /\ fn = "none"
    /\ \E tabela \in {<<r>> : r \in ClientesKommo} \cup TabelasDeDoisKommo,
          mes_referencia \in MesesReferencia \ {SemMes},
          historico \in Pagamentos, acesso \in AcessosConfig, falha \in Falhas :
           /\ entrada' = [tabela |-> tabela, mes_referencia |-> mes_referencia,
                          config |-> ConfigEmVigor, historico |-> historico,
                          cache_valido |-> acesso[1], falha_config |-> acesso[2],
                          falha |-> falha]
           /\ saida' = FetchComissoesPorHistorico(tabela, historico, mes_referencia,
                                                  ConfigEmVigor, acesso[1], acesso[2], falha)
           /\ FetchConfigNaChamada(TRUE, acesso[2])
    /\ fn' = "fetch_comissoes_por_historico"
    /\ UNCHANGED <<ledgerVars, concVars>>

----------------------------------------------------------------------------
(* Requests served side by side by two worker processes on one database.   *)
(* Every request runs in its own transaction at PostgreSQL's default         *)
(* isolation level (READ COMMITTED): a statement reads the rows committed    *)
(* when it starts; what it writes is seen by the others from its commit on.  *)
(* INSERT ... ON CONFLICT waits for a transaction that holds an uncommitted  *)
(* row of the same key.  In LIBERAR_COMISSOES_FIFO the sub-select is         *)
(* evaluated on the rows read when the statement starts; the outer UPDATE    *)
(* locks each row whose id was selected, waits for a concurrent transaction  *)
(* that holds it, and then re-checks only its own condition, id IN (...),    *)
(* on the newest version of the row.  MARCAR_COMISSOES_PERDIDAS re-checks    *)
(* cnpj and status = 'bloqueada' on the newest version.                      *)
(* A request is the record                                                   *)
(*   pc     "idle", "rodando" (snapshot run), "conectado" (release: has its  *)
(*          connection and its timestamp), "selecionado" (release or loss:   *)
(*          its statement has read the rows), "feito"                        *)
(*   tipo   "snapshot", "liberar", "perdida"                                 *)
(*   ordem  1 for a request that starts while no other is under way and      *)
(*          restarts the history, 2, 3, ... for those started since          *)
(*   run, fase, dados, pendente   of a snapshot run: the run, the place in   *)
(*          the turn ("relogio", "inserir", "commit"), the row prepared and  *)
(*          the row inserted and not yet committed                           *)

Pedidos == {1, 2}

PedidoParado ==
    [pc |-> "idle", tipo |-> "nenhum", ordem |-> 0, cnpj |-> "", n |-> 0, motivo |-> "",
     ts |-> 0, ids |-> {}, liberadas |-> 0, falha |-> SemFalha, raised |-> FALSE,
     run |-> SnapParado, fase |-> "relogio", dados |-> {}, pendente |-> {}]

EmCurso(q) == pedido[q].pc \notin {"idle", "feito"}

\* worker p takes a request, rec, while the other worker is where it is: the
\* history (base, primeira, the requests that ended) restarts when none is
\* under way and p has served one already or no worker has
Comecar(p, rec) ==
    LET outro == CHOOSE q \in Pedidos : q # p
        nova == /\ ~EmCurso(outro)
                /\ pedido[p].pc = "feito" \/ pedido[outro].pc = "idle"
        ordem == IF nova THEN 1
                 ELSE 1 + Max(pedido[p].ordem, pedido[outro].ordem)
    IN /\ pedido[p].pc \in {"idle", "feito"}
       /\ agora < MaxAgora
       /\ pedido' = [q \in Pedidos |->
                        IF q = p THEN [rec EXCEPT !.ordem = ordem, !.ts = agora + 1]
                        ELSE IF nova THEN PedidoParado
                        ELSE pedido[q]]
       /\ base' = IF nova THEN ledger ELSE base
       /\ primeira' = IF nova THEN {} ELSE primeira
       /\ agora' = agora + 1

\* snapshot lists of the requests served side by side: one client with one or
\* two overdue parcels
ListasDeUmCliente ==
    {clientes \in ListasDeClientes :
        /\ Len(clientes) = 1
        /\ clientes[1].parcelas_atrasadas <= MaxParcelasPedido}

\* processar_snapshot_inadimplencia(clientes), lines 329-337, in worker p
IniciarSnapshotPedido ==
    /\ \E p \in Pedidos, clientes \in ListasDeUmCliente :
           Comecar(p, [PedidoParado EXCEPT !.pc = "rodando", !.tipo = "snapshot",
                                           !.run = SnapInicial(clientes, ledger, hoje, FALSE)])
    /\ UNCHANGED <<ledger, nextId, hoje, op, retorno, snap, pagasFifo, repetida, tentativas>>
    /\ UNCHANGED <<calcVars, configVars>>

\* the turn of the inner loop of worker p's run has ended with the run as r:
\* the next turn, or the return of the list (line 414)
FimDoPasso(p, r) ==
    IF Terminou(r)
    THEN /\ pedido' = [pedido EXCEPT ![p].pc = "feito", ![p].run = r,
                                     ![p].dados = {}, ![p].pendente = {}]
         /\ retorno' = Retorno(r.resultados, 0, TRUE, FALSE)
         /\ op' = Chamada("snapshot", None, 0, r.clientes, 0, None, None, SemFalha, SemMes)
    ELSE /\ pedido' = [pedido EXCEPT ![p].fase = "relogio", ![p].run = r,
                                     ![p].dados = {}, ![p].pendente = {}]
         /\ UNCHANGED <<op, retorno>>

\* lines 338-376: the two datetime.now() of the turn and the row of the parcel
LerRelogioPedido ==
    /\ \E p \in Pedidos :
           /\ pedido[p].pc = "rodando"
           /\ pedido[p].fase = "relogio"
           /\ LET r == pedido[p].run
              IN IF SubtrairMesesLevanta(hoje, r.parcela)
                 THEN FimDoPasso(p, ProximoCliente(r, FALSE))
                 ELSE /\ pedido' = [pedido EXCEPT
                             ![p].fase = "inserir",
                             ![p].dados = {DadosParcela(r.clientes[r.i], r.parcela, hoje, agora)}]
                      /\ UNCHANGED <<op, retorno>>
    /\ UNCHANGED <<ledger, nextId, hoje, agora, snap, pagasFifo, repetida, tentativas>>
    /\ UNCHANGED <<base, primeira, calcVars, configVars>>

\* the rows of the other transactions that are inserted and not yet committed
PendentesDosOutros(p) == UNION {pedido[q].pendente : q \in Pedidos \ {p}}

\* _inserir_comissao_pendente, lines 142-150: get_conn() and cur.execute of
\* INSERIR_COMISSAO_PENDENTE.  The statement waits while another transaction
\* holds an uncommitted row of the same key; the row it inserts is its own
\* until the commit.
ExecutarInsertPedido ==
    /\ \E p \in Pedidos :
           /\ pedido[p].pc = "rodando"
           /\ pedido[p].fase = "inserir"
           /\ \E dados \in pedido[p].dados :
                  /\ ~Conflita(PendentesDosOutros(p), dados)
                  /\ pedido' = [pedido EXCEPT
                         ![p].fase = "commit",
                         ![p].pendente = InserirSql(ledger, nextId, dados).ledger \ ledger]
                  /\ nextId' = InserirSql(ledger, nextId, dados).nextId
    /\ UNCHANGED <<ledger, hoje, agora, op, retorno, snap, pagasFifo, repetida, tentativas>>
    /\ UNCHANGED <<base, primeira, calcVars, configVars>>

\* _inserir_comissao_pendente, lines 151-158, and lines 379-388 of the run:
\* conn.commit() and True, counted as created; when the commit raises, the
\* rollback and False, counted as existing
ConfirmarInsertPedido ==
    /\ \E p \in Pedidos, falha \in {SemFalha, FalhaConsulta} :
           /\ pedido[p].pc = "rodando"
           /\ pedido[p].fase = "commit"
           /\ ledger' = IF falha = SemFalha THEN ledger \cup pedido[p].pendente ELSE ledger
           /\ \E dados \in pedido[p].dados :
                  FimDoPasso(p, Avancar(Contar(pedido[p].run,
                                               [raised |-> FALSE, sucesso |-> falha = SemFalha],
                                               dados, falha)))
    /\ UNCHANGED <<nextId, hoje, agora, snap, pagasFifo, repetida, tentativas>>
    /\ UNCHANGED <<base, primeira, calcVars, configVars>>

\* the outer UPDATE of LIBERAR_COMISSOES_FIFO over the ids its sub-select chose
AplicarLiberacao(led, ids, ts) ==
    {IF r.id \in ids
     THEN [r EXCEPT !.status = Paga, !.data_liberacao = ts]
     ELSE r : r \in led}

\* _atualizar_comissoes_cliente_regularizado(cnpj, parcelas_pagas), lines
\* 286-292: get_conn() and the datetime.now() of the statement's parameters.
\* When get_conn() raises the call raises.
IniciarLiberacao(p, cnpj, parcelas_pagas, falha) ==
    /\ Comecar(p, [PedidoParado EXCEPT
                      !.pc = IF falha = SemFalha THEN "conectado" ELSE "feito",
                      !.tipo = "liberar", !.cnpj = cnpj, !.n = parcelas_pagas,
                      !.falha = falha, !.raised = (falha = FalhaConexao)])
    /\ IF falha = SemFalha
       THEN UNCHANGED <<op, retorno>>
       ELSE /\ op' = Chamada("liberar", cnpj, parcelas_pagas, <<>>, 0, None, None, falha, SemMes)
            /\ retorno' = Retorno(<<>>, 0, FALSE, TRUE)
    /\ UNCHANGED <<ledger, nextId, hoje, snap, pagasFifo, repetida, tentativas>>

\* lines 290-293: cur.execute starts and the sub-select reads the blocked rows
\* of the client; when the statement raises, the rollback and 0 (lines
\* 299-302)
SelecionarLiberacao(p, falha) ==
    /\ pedido[p].pc = "conectado"
    /\ IF falha = SemFalha
       THEN /\ pedido' = [pedido EXCEPT
                   ![p].pc = "selecionado",
                   ![p].ids = FifoIds(ledger, pedido[p].cnpj, pedido[p].n)]
            /\ UNCHANGED <<op, retorno>>
       ELSE /\ pedido' = [pedido EXCEPT ![p].pc = "feito", ![p].falha = falha]
            /\ op' = Chamada("liberar", pedido[p].cnpj, pedido[p].n, <<>>, 0, None, None, falha, SemMes)
            /\ retorno' = Retorno(<<>>, 0, FALSE, FALSE)
    /\ UNCHANGED <<ledger, nextId, hoje, agora, snap, pagasFifo, repetida, tentativas>>
    /\ UNCHANGED <<base, primeira>>

\* _atualizar_comissoes_cliente_regularizado, lines 290-304: the rows are
\* updated, rowcount is read, the transaction commits and the count is returned
ConcluirLiberacao(p) ==
    /\ pedido[p].pc = "selecionado"
    /\ pedido[p].tipo = "liberar"
    /\ ledger' = AplicarLiberacao(ledger, pedido[p].ids, pedido[p].ts)
    /\ pedido' = [pedido EXCEPT ![p].pc = "feito",
                                ![p].liberadas = Cardinality(pedido[p].ids)]
    /\ primeira' = primeira \cup
           {<<r.id, pedido[p].ts>> : r \in {x \in ledger : x.id \in pedido[p].ids /\ x.status = Bloqueada}}
    /\ retorno' = Retorno(<<>>, Cardinality(pedido[p].ids), TRUE, FALSE)
    /\ op' = Chamada("liberar", pedido[p].cnpj, pedido[p].n, <<>>, 0, None, None, SemFalha, SemMes)
    /\ UNCHANGED <<nextId, hoje, agora, snap, pagasFifo, repetida, tentativas, base>>

\* _marcar_comissao_perdida(cnpj, motivo), lines 258-263, in worker p:
\* get_conn() and cur.execute of MARCAR_COMISSOES_PERDIDAS, which reads the
\* blocked rows of the client.  When get_conn() raises the call raises; when
\* the statement raises, the rollback and False.
IniciarPerdaPedido ==
    /\ \E p \in Pedidos, cnpj \in CNPJs, motivo \in {"cancelamento"}, falha \in Falhas :
           /\ Comecar(p, [PedidoParado EXCEPT
                             !.pc = IF falha = SemFalha THEN "selecionado" ELSE "feito",
                             !.tipo = "perdida", !.cnpj = cnpj, !.motivo = motivo,
                             !.ids = IF falha = SemFalha
                                     THEN {r.id : r \in BloqueadasDe(ledger, cnpj)} ELSE {},
                             !.falha = falha, !.raised = (falha = FalhaConexao)])
           /\ IF falha = SemFalha
              THEN UNCHANGED <<op, retorno>>
              ELSE /\ op' = Chamada("perdida", cnpj, 0, <<>>, 0, None, motivo, falha, SemMes)
                   /\ retorno' = Retorno(<<>>, 0, FALSE, falha = FalhaConexao)
    /\ UNCHANGED <<ledger, nextId, hoje, snap, pagasFifo, repetida, tentativas>>
    /\ UNCHANGED <<calcVars, configVars>>

\* _marcar_comissao_perdida, lines 261-272: the rows read that are still
\* blocked are written off, the transaction commits and True is returned
ConcluirPerdaPedido ==
    /\ \E p \in Pedidos :
           /\ pedido[p].pc = "selecionado"
           /\ pedido[p].tipo = "perdida"
           /\ ledger' = MarcarPerdidasSql({r \in ledger : r.id \in pedido[p].ids},
                                          pedido[p].cnpj, pedido[p].motivo)
                            \cup {r \in ledger : r.id \notin pedido[p].ids}
           /\ pedido' = [pedido EXCEPT ![p].pc = "feito"]
           /\ retorno' = Retorno(<<>>, 0, TRUE, FALSE)
           /\ op' = Chamada("perdida", pedido[p].cnpj, 0, <<>>, 0, None, pedido[p].motivo, SemFalha, SemMes)
    /\ UNCHANGED <<nextId, hoje, agora, snap, pagasFifo, repetida, tentativas>>
    /\ UNCHANGED <<base, primeira, calcVars, configVars>>

InitConc ==
    /\ pedido = [p \in Pedidos |-> PedidoParado]
    /\ base = {}
    /\ primeira = {}

\* the table commission_config holds its row or is still empty
InitTabelaQualquer == InitLedger /\ InitCalc /\ InitConfig /\ InitConc

Init == InitTabelaQualquer /\ commission_config = <<RowInicial>>

\* the ledger requests the endpoints of main.py serve
Next ==
    \/ SnapshotIniciar
    \/ SnapshotInserir
    \/ Liberar
    \/ Perder
    \/ PassarMes

Spec == Init /\ [][Next]_vars

\* every function of inadimplencia.py that writes the ledger, the two helpers
\* that no endpoint calls included, called one after the other
NextOperacoes ==
    \/ SnapshotIniciar
    \/ SnapshotInserir
    \/ Liberar
    \/ Perder
    \/ Status
    \/ PagaPorId
    \/ PassarMes

SpecOperacoes == Init /\ [][NextOperacoes]_vars

BuscarConfig ==
    /\ \E t \in Threads : FetchIniciar(t)
    /\ UNCHANGED <<ledgerVars, calcVars, concVars>>

VerificarCache ==
    /\ \E t \in Threads : FetchLerTempo(t) \/ FetchCalcularIdade(t) \/ FetchDevolverCache(t)
    /\ UNCHANGED <<ledgerVars, calcVars, concVars>>

LerConfig ==
    /\ \E t \in Threads, conexao_falha \in BOOLEAN, consulta_falha \in BOOLEAN : FetchLer(t, conexao_falha, consulta_falha)
    /\ UNCHANGED <<ledgerVars, calcVars, concVars>>

GravarCache ==
    /\ \E t \in Threads : FetchGravar(t) \/ FetchGravarTempo(t)
    /\ UNCHANGED <<ledgerVars, calcVars, concVars>>

AtualizarConfig ==
    /\ \E args \in ArgsDeUpdate, conexao_falha \in BOOLEAN, consulta_falha \in BOOLEAN : UpdateExecutar(args, conexao_falha, consulta_falha)
    /\ UNCHANGED <<ledgerVars, calcVars, concVars>>

LimparAposUpdate ==
    /\ UpdateLimpar
    /\ UNCHANGED <<ledgerVars, calcVars, concVars>>

LimparCache ==
    /\ ClearCommissionConfigCache \/ ClearTempo
    /\ UNCHANGED <<ledgerVars, calcVars, concVars>>

Tempo ==
    /\ PassarTempo
    /\ UNCHANGED <<ledgerVars, calcVars, concVars>>

NextConfig ==
    \/ BuscarConfig
    \/ VerificarCache
    \/ LerConfig
    \/ GravarCache
    \/ AtualizarConfig
    \/ LimparAposUpdate
    \/ LimparCache
    \/ Tempo

SpecConfig == InitTabelaQualquer /\ [][NextConfig]_vars

MaxFalhas == 2                  \* inserts that fail in one snapshot run
MaxSnapshotsComFalhas == 2      \* snapshot runs in one behaviour with failures

\* the failed inserts of client i, and of the whole run, among the attempts t
FalhasDoCliente(t, i) == {x \in t[i] : x[3] # SemFalha}
NumFalhas(t) == Cardinality(UNION {{<<i, x>> : x \in FalhasDoCliente(t, i)} : i \in 1..Len(t)})

\* processar_snapshot_inadimplencia(clientes) on a database that may fail
SnapshotIniciarComFalhas ==
    /\ agora < MaxSnapshotsComFalhas
    /\ SnapshotIniciar

\* one insert of the run; the database may refuse the connection or raise on
\* the statement
SnapshotInserirComFalhas ==
    /\ snap.pc = "rodando"
    /\ \E falha \in Falhas :
           /\ falha # SemFalha => NumFalhas(snap.tentativas) < MaxFalhas
           /\ InserirParcela(falha)
    /\ UNCHANGED <<calcVars, configVars, concVars>>

\* the other requests while the database fails
LiberarComFalha ==
    /\ snap.pc = "parado"
    /\ \E cnpj \in CNPJs, n \in 1..MaxLiberar, falha \in Falhas \ {SemFalha} :
           LiberarFifo(cnpj, n, falha)
    /\ UNCHANGED <<calcVars, configVars, concVars>>

PerderComFalha ==
    /\ snap.pc = "parado"
    /\ \E cnpj \in CNPJs, motivo \in Motivos, falha \in Falhas \ {SemFalha} :
           MarcarPerdida(cnpj, motivo, falha)
    /\ UNCHANGED <<calcVars, configVars, concVars>>

\* release requests of the two workers
IniciarPedido ==
    /\ \E p \in Pedidos, cnpj \in CNPJs, n \in 1..MaxParcelasPedido, falha \in {SemFalha, FalhaConexao} :
           IniciarLiberacao(p, cnpj, n, falha)
    /\ UNCHANGED <<calcVars, configVars>>

SelecionarPedido ==
    /\ \E p \in Pedidos, falha \in {SemFalha, FalhaConsulta} : SelecionarLiberacao(p, falha)
    /\ UNCHANGED <<calcVars, configVars>>

ConcluirPedido ==
    /\ \E p \in Pedidos : ConcluirLiberacao(p)
    /\ UNCHANGED <<calcVars, configVars>>

\* snapshot runs, releases and write-offs of two worker processes, step by step
NextConc ==
    \/ IniciarSnapshotPedido
    \/ LerRelogioPedido
    \/ ExecutarInsertPedido
    \/ ConfirmarInsertPedido
    \/ IniciarPedido
    \/ SelecionarPedido
    \/ ConcluirPedido
    \/ IniciarPerdaPedido
    \/ ConcluirPerdaPedido

SpecConc == Init /\ [][NextConc]_vars

NextFalhas ==
    \/ SnapshotIniciarComFalhas
    \/ SnapshotInserirComFalhas
    \/ LiberarComFalha
    \/ PerderComFalha
    \/ PassarMes

SpecFalhas == Init /\ [][NextFalhas]_vars

NextCalc ==
    \/ ChamarMapClienteToComissao
    \/ ChamarMapClienteToComissaoComFalha
    \/ ChamarFetchAllClientesComissao
    \/ ChamarFetchComissoesPorHistorico
    \/ ChamarMapClienteComStatus
    \/ ChamarGetTierInfo
    \/ ChamarGetCommissionMonths

\* a process whose table commission_config holds its row and whose
\* configuration cache is still empty or holds, fresh, the object an earlier
\* fetch_commission_config() built from that row
InitCalcs ==
    /\ InitLedger /\ InitCalc /\ InitConc
    /\ commission_config = <<RowInicial>>
    /\ \/ /\ commission_config_cache = <<>>
          /\ commission_config_cache_time = <<>>
          /\ lidos = {}
       \/ /\ commission_config_cache = <<ConfigDeRow(RowInicial)>>
          /\ commission_config_cache_time = <<0>>
          /\ lidos = {ConfigDeRow(RowInicial)}
    /\ relogio = 0
    /\ pc = [t \in Threads |-> "idle"]
    /\ lido = [t \in Threads |-> <<>>]
    /\ inicio = [t \in Threads |-> SemChamada]
    /\ devolvido = SemRetorno
    /\ updIniciados = 0
    /\ updFeitos = 0
    /\ ultimoUpdate = <<>>
    /\ mudouEm = <<>>

SpecCalc == InitCalcs /\ [][NextCalc]_vars

\* customer records whose numbers may be negative or out of range: mrr and
\* setup fee below zero, overdue count and months elapsed below zero, an
\* overdue count above the months elapsed
ClientesComNegativos ==
    [cnpj : {"", "c1"},
     data_adesao : {<<2025, 5>>},
     data_cancelamento : {SemMes},
     valor : {-1000, 0, 1000},
     taxa_setup : {-500, 0, 500},
     meses_ativo : {-1, 0, 1, 8},
     parcelas_atrasadas : {-1, 0, 2, 9},
     meses_ativo_referencia : {-1, 0, 1}]

\* map_cliente_to_comissao called with such a record
ChamarMapClienteComNegativos ==
    /\ fn = "none"
    /\ \E cliente \in ClientesComNegativos,
          reference_month \in {SemMes, <<2025, 6>>, <<2025, 7>>},
          vendedor_tier \in {"bronze", "ouro"},
          historico \in SUBSET {[cnpj |-> "c1", vencimento |-> <<2025, 5>>, pago |-> TRUE]},
          acesso \in AcessosConfig, falha \in Falhas :
           /\ entrada' = EntradaMap(cliente, reference_month, vendedor_tier, historico,
                                    acesso[1], acesso[2], falha)
           /\ saida' = MapClienteToComissao(cliente, reference_month, vendedor_tier,
                                            ConfigEmVigor, historico, acesso[1],
                                            acesso[2], falha, MesHojeCalc)
           /\ FetchConfigNaChamada(MapChamaFetchConfig(cliente, reference_month), acesso[2])
    /\ fn' = "map_cliente_to_comissao"
    /\ UNCHANGED <<ledgerVars, concVars>>

NextCalcNegativos == ChamarMapClienteComNegativos

SpecCalcNegativos == InitCalcs /\ [][NextCalcNegativos]_vars

----------------------------------------------------------------------------
(* Properties of the ledger *)

Linha(led, id) == CHOOSE r \in led : r.id = id
Ids(led) == {r.id : r \in led}
Min(a, b) == IF a < b THEN a ELSE b

\* C1: every row is created 'bloqueada', its status only ever changes from
\* 'bloqueada' to 'paga' or to 'perdida' (a 'paga' or 'perdida' row keeps its
\* status), and no row holds a status outside {bloqueada, paga, perdida}.
C1_SoTransicoesValidas ==
    [][/\ \A s \in ledger' : s.status \in StatusValidos
       /\ \A s \in ledger' : s.id \notin Ids(ledger) => s.status = Bloqueada
       /\ \A r \in ledger : \A s \in ledger' :
              (s.id = r.id /\ s.status # r.status)
                  => (r.status = Bloqueada /\ s.status \in {Paga, Perdida})]_vars

\* the rows of cnpj that a step moved from 'bloqueada' to 'paga'
PagasNoPasso(cnpj) ==
    {r \in BloqueadasDe(ledger, cnpj) :
        \E s \in ledger' : s.id = r.id /\ s.status = Paga}

\* a release step either raises, the table left as it was, or pays exactly the
\* min(n, B) oldest blocked rows of the client and returns min(n, B)
LiberacaoFifoExata ==
    op'.nome = "liberar" =>
        LET c == op'.cnpj
            B == BloqueadasDe(ledger, c)
            P == PagasNoPasso(c)
        IN IF retorno'.raised THEN ledger' = ledger
           ELSE /\ Cardinality(P) = Min(op'.n, Cardinality(B))
                /\ retorno'.liberadas = Min(op'.n, Cardinality(B))
                /\ \A r \in P : \A s \in B \ P :
                       MesOrd(r.mes_referencia) < MesOrd(s.mes_referencia)

\* C2: a FIFO release for client c with count n >= 1, when c has B blocked
\* rows, moves to 'paga' exactly the min(n, B) blocked rows of c with the
\* smallest commission months and returns min(n, B) without error, a failure
\* of the database being raised to the caller; and in no state is a blocked
\* row of c older than a row of c that a release paid.
C2_LiberacaoFifo ==
    [][/\ LiberacaoFifoExata
       /\ \A r \in ledger' : \A s \in ledger' :
              (r.id \in pagasFifo' /\ s.cnpj = r.cnpj /\ s.status = Bloqueada)
                  => ~(MesOrd(s.mes_referencia) < MesOrd(r.mes_referencia))]_vars

\* the step that ends the second of two snapshot runs with the same client
\* list, both run in one and the same calendar month, with no other request
\* between or during them
SegundaExecucao ==
    /\ snap.pc = "rodando"
    /\ op'.nome = "snapshot"
    /\ repetida'

\* C3: the second of two snapshot runs with the same client list in the same
\* calendar month leaves the ledger with exactly the rows and field values it
\* had after the first run (the ledger the second run started on), and reports
\* no error.
C3_SnapshotIdempotente ==
    [][SegundaExecucao =>
          /\ ledger' = snap.ledger0
          /\ \A i \in 1..Len(retorno'.resultados) : retorno'.resultados[i].sucesso]_vars

\* the second run has just finished, over a client with two overdue parcels
C3_Witness ==
    /\ repetida
    /\ \E i \in 1..Len(op.clientes) :
           Cardinality(RowsDe(ledger, op.clientes[i].cnpj)) >= 2

\* C4: on the second of two identical snapshot runs every client's result
\* reports registros_criados = 0 and registros_existentes = its overdue count.
C4_SegundaExecucaoSoExistentes ==
    [][SegundaExecucao =>
          \A i \in 1..Len(retorno'.resultados) :
              /\ retorno'.resultados[i].registros_criados = 0
              /\ retorno'.resultados[i].registros_existentes
                     = op'.clientes[i].parcelas_atrasadas]_vars

\* C5: in every state that snapshot runs, releases and write-offs of two
\* worker processes reach, their steps interleaved, the table holds at most
\* one row for each pair (cnpj, commission month).
C5_ChaveUnica ==
    \A r \in ledger : \A s \in ledger :
        (r.cnpj = s.cnpj /\ r.mes_referencia = s.mes_referencia) => r = s

\* two snapshot runs overlap on one key: one holds the row it inserted and has
\* not committed, the other is about to insert the same (cnpj, month), while
\* a row of that client has been paid or written off by a request served in
\* between
C5_Witness ==
    \E p \in Pedidos, q \in Pedidos :
        /\ p # q
        /\ pedido[p].pc = "rodando" /\ pedido[p].fase = "commit"
        /\ pedido[q].pc = "rodando" /\ pedido[q].fase = "inserir"
        /\ \E d \in pedido[q].dados :
               /\ Conflita(pedido[p].pendente, d)
               /\ \E r \in ledger : r.cnpj = d.cnpj /\ r.status \in {Paga, Perdida}

\* C6: marcar_comissao_perdida for client c moves every 'bloqueada' row of c to
\* 'perdida' and leaves the status of every 'paga' or 'perdida' row of c and of
\* every row of every other client unchanged.
C6_PerdidaSoBloqueadasDoCliente ==
    [][(op'.nome = "perdida" /\ op'.falha = SemFalha) =>
          /\ Ids(ledger') = Ids(ledger)
          /\ Cardinality(ledger') = Cardinality(ledger)
          /\ \A r \in ledger :
                 Linha(ledger', r.id).status =
                     IF r.cnpj = op'.cnpj /\ r.status = Bloqueada
                     THEN Perdida ELSE r.status]_vars

\* the client's blocked row has just been written off while it also has a paid
\* row and the other client has a blocked row
C6_Witness ==
    /\ op.nome = "perdida"
    /\ \E r \in ledger : r.cnpj = op.cnpj /\ r.status = Perdida
    /\ \E r \in ledger : r.cnpj = op.cnpj /\ r.status = Paga
    /\ \E r \in ledger : r.cnpj # op.cnpj /\ r.status = Bloqueada

----------------------------------------------------------------------------
(* Properties of the commission functions *)

\* reference month ref is one of the 7 months that follow the signup month
NoCiclo(adesao, ref) ==
    /\ MesOrd(ref) - MesOrd(adesao) >= 1
    /\ MesOrd(ref) - MesOrd(adesao) <= 7

\* C7: for every signup month m, _get_commission_months(m) returns exactly 7
\* months, the first the calendar month after m, each next one the calendar
\* month after the previous one (the year incremented after December); m itself
\* is not in the list.
C7_CicloDeSeteMeses ==
    fn = "_get_commission_months" =>
        /\ Len(saida) = 7
        /\ \A k \in 1..Len(saida) : saida[k][2] \in 1..12
        /\ MesOrd(saida[1]) = MesOrd(entrada.start_month) + 1
        /\ \A k \in 1..(Len(saida) - 1) : MesOrd(saida[k + 1]) = MesOrd(saida[k]) + 1
        /\ \A k \in 1..Len(saida) : saida[k] # entrada.start_month

\* a signup in December: the cycle starts in January of the next year
C7_Witness ==
    /\ fn = "_get_commission_months"
    /\ entrada.start_month = <<2024, 12>>
    /\ saida[1] = <<2025, 1>>
    /\ saida[7] = <<2025, 7>>

\* C8: for every client and every reference month that is not one of the 7
\* months of its cycle (the signup month itself, a month before it or a month
\* after the 7th), the commission has percentage 0 and amount 0, whatever the
\* payment history holds.  A client without signup date has the cycle that
\* starts after the current month (vendas.py line 705).
C8_ForaDoCicloZero ==
    (/\ fn = "map_cliente_to_comissao" /\ ~saida.raised
     /\ entrada.reference_month # SemMes
     /\ ~NoCiclo(IF entrada.cliente.data_adesao = SemMes THEN entrada.mes_hoje
                 ELSE entrada.cliente.data_adesao,
                 entrada.reference_month))
        => (saida.percentual = 0 /\ saida.valor = 0)

\* a month after the 7th for which the history holds a paid installment of the
\* client, who has nothing overdue
C8_Witness ==
    /\ fn = "map_cliente_to_comissao" /\ ~saida.raised
    /\ entrada.cliente.cnpj = "c1"
    /\ entrada.cliente.data_adesao = <<2024, 11>>
    /\ entrada.cliente.parcelas_atrasadas = 0
    /\ entrada.cliente.meses_ativo = 8
    /\ entrada.reference_month = <<2025, 9>>
    /\ \E h \in entrada.historico : h.vencimento = <<2025, 8>>
    /\ entrada.falha = SemFalha
    /\ saida.valor = 0

Ordem(tier) == IF tier = "ouro" THEN 3 ELSE IF tier = "prata" THEN 2 ELSE 1

\* C9: get_tier_info returns 'ouro' with the tier-3 pair iff s >= g, 'prata'
\* with the tier-2 pair iff 6 <= s < g, 'bronze' with the tier-1 pair otherwise
\* (so, when g > 6: 5 -> bronze, 6 -> prata, g-1 -> prata, g -> ouro), and the
\* tier of a smaller sales count is never higher.
C9_TierPorVendas ==
    fn = "get_tier_info" =>
        LET s == entrada.vendas_mes
            g == entrada.config.sales_goal
            c == entrada.config
        IN /\ (saida.tier = "ouro") <=> (s >= g)
           /\ (saida.tier = "prata") <=> (6 <= s /\ s < g)
           /\ (saida.tier = "bronze") <=> (s < 6 /\ s < g)
           /\ saida.tier = "ouro" =>
                  (saida.percentualMrr = c.mrr_tier3 /\ saida.percentualSetup = c.setup_tier3)
           /\ saida.tier = "prata" =>
                  (saida.percentualMrr = c.mrr_tier2 /\ saida.percentualSetup = c.setup_tier2)
           /\ saida.tier = "bronze" =>
                  (saida.percentualMrr = c.mrr_tier1 /\ saida.percentualSetup = c.setup_tier1)
           /\ g > 6 =>
                  /\ s = 5 => saida.tier = "bronze"
                  /\ s = 6 => saida.tier = "prata"
                  /\ s = g - 1 => saida.tier = "prata"
                  /\ s = g => saida.tier = "ouro"
           /\ \A t \in 0..s : Ordem(GetTierInfo(t, c).tier) <= Ordem(saida.tier)

\* one sale short of a goal above 6
C9_Witness ==
    /\ fn = "get_tier_info"
    /\ entrada.config.sales_goal > 6
    /\ entrada.vendas_mes = entrada.config.sales_goal - 1
    /\ saida.tier = "prata"
    /\ saida.percentualSetup = 25

\* C10: for a client with zero overdue installments, not cancelled, whose
\* reference month is at cycle position p, the commission has percentage
\* schedule[p] and amount mrr * schedule[p] / 100, plus setup fee * the setup
\* percentage of the seller's tier / 100 only when p = 0 and the setup fee is
\* > 0.  Stated for the clients whose months elapsed reach the position
\* (meses_ativo >= p + 1 and, when supplied, meses_ativo_referencia >= p + 1),
\* for which the estimate recognises the commission.
C10_ComissaoEmDia ==
    (/\ fn = "map_cliente_to_comissao" /\ ~saida.raised
     /\ entrada.cliente.data_adesao # SemMes
     /\ entrada.reference_month # SemMes
     /\ NoCiclo(entrada.cliente.data_adesao, entrada.reference_month)
     /\ entrada.cliente.parcelas_atrasadas = 0
     /\ entrada.cliente.data_cancelamento = SemMes
     /\ entrada.cliente.meses_ativo
            >= MesOrd(entrada.reference_month) - MesOrd(entrada.cliente.data_adesao)
     /\ entrada.cliente.meses_ativo_referencia \in
            {0} \cup {m \in 1..100 :
                        m >= MesOrd(entrada.reference_month)
                                 - MesOrd(entrada.cliente.data_adesao)})
        => LET p == MesOrd(entrada.reference_month)
                        - MesOrd(entrada.cliente.data_adesao) - 1
               c == entrada.config
               taxa == IF entrada.vendedor_tier = "ouro" THEN c.setup_tier3
                       ELSE IF entrada.vendedor_tier = "prata" THEN c.setup_tier2
                       ELSE c.setup_tier1
           IN /\ saida.percentual = c.mrr_recurrence[p + 1]
              /\ saida.valor =
                     (entrada.cliente.valor * c.mrr_recurrence[p + 1])
                     + (IF p = 0 /\ entrada.cliente.taxa_setup > 0
                        THEN (entrada.cliente.taxa_setup * taxa) ELSE 0)

\* the call took the historical path with an installment found: the client has
\* cnpj and signup date, the reference month is in its cycle, the query did not
\* fail and a paid installment due in the previous month exists
ComParcelaPaga ==
    /\ fn = "map_cliente_to_comissao" /\ ~saida.raised
    /\ entrada.cliente.cnpj # ""
    /\ entrada.cliente.data_adesao # SemMes
    /\ entrada.reference_month # SemMes
    /\ NoCiclo(entrada.cliente.data_adesao, entrada.reference_month)
    /\ entrada.falha = SemFalha
    /\ ParcelasDoMes(entrada.historico, entrada.cliente.cnpj, entrada.reference_month) # {}

\* the months elapsed reach the cycle position of the reference month
MesesAlcancamPosicao ==
    /\ entrada.cliente.meses_ativo
           >= MesOrd(entrada.reference_month) - MesOrd(entrada.cliente.data_adesao)
    /\ \/ entrada.cliente.meses_ativo_referencia = 0
       \/ entrada.cliente.meses_ativo_referencia
              >= MesOrd(entrada.reference_month) - MesOrd(entrada.cliente.data_adesao)

\* C11: for a client with zero overdue installments, every seller tier and every
\* in-cycle reference month with a paid installment due in the previous month,
\* the cycle position, percentage and amount of the historical path (as called
\* from map_cliente_to_comissao) equal those of the estimate for the same
\* client, month and tier.  Stated for clients not cancelled whose months
\* elapsed reach the position.
C11_HistoricoIgualEstimativa ==
    (/\ ComParcelaPaga
     /\ entrada.cliente.parcelas_atrasadas = 0
     /\ entrada.cliente.data_cancelamento = SemMes
     /\ MesesAlcancamPosicao)
        => LET est == Estimativa(entrada.cliente, entrada.cliente.data_adesao,
                                 entrada.reference_month, entrada.vendedor_tier,
                                 entrada.config)
           IN /\ saida.meses_comissao - 1
                     = Index(GetCommissionMonths(entrada.cliente.data_adesao),
                             entrada.reference_month)
              /\ saida.percentual = est.percentual
              /\ saida.valor = est.valor

\* C12: whenever the payment history holds a paid installment of the client
\* whose commission month is the reference month, the commission line that
\* map_cliente_to_comissao returns for the client's row as delivered by the
\* commission query carries the percentage and amount of the historical
\* computation, also when the estimate differs.
C12_LinhaDoHistorico ==
    (/\ fn = "fetch_all_clientes_comissao"
     /\ entrada.month # SemMes
     /\ ~saida.raised
     /\ entrada.falha = SemFalha
     /\ Len(saida.linhas) = 1)
        => LET cliente == entrada.tabela[1]
               hist == CalcularComissaoPorHistoricoPagamentos(
                           cliente, entrada.month, entrada.config, "bronze",
                           entrada.historico, SemFalha)
           IN (/\ ParcelasDoMes(entrada.historico, cliente.cnpj, entrada.month) # {}
               /\ hist.posicao >= 0)
                  => (saida.linhas[1].percentual = hist.percentual
                      /\ saida.linhas[1].valor = hist.valor)

\* C13: when the reference month is in the client's cycle and the history holds
\* no paid installment whose commission month is that month, the historical
\* path reports no result and map_cliente_to_comissao returns the percentage
\* and amount of the estimate for that month.
C13_SemParcelaValeEstimativa ==
    (/\ fn = "map_cliente_to_comissao" /\ ~saida.raised
     /\ entrada.cliente.cnpj # ""
     /\ entrada.cliente.data_adesao # SemMes
     /\ entrada.reference_month # SemMes
     /\ NoCiclo(entrada.cliente.data_adesao, entrada.reference_month)
     /\ entrada.falha = SemFalha
     /\ ParcelasDoMes(entrada.historico, entrada.cliente.cnpj, entrada.reference_month) = {})
        => LET est == Estimativa(entrada.cliente, entrada.cliente.data_adesao,
                                 entrada.reference_month, entrada.vendedor_tier,
                                 entrada.config)
           IN /\ saida.percentual = est.percentual
              /\ saida.valor = est.valor

\* C14: for a client with a cancellation date and a reference month strictly
\* after the cancellation month, the commission amount is zero on the estimated
\* and on the historical path; with cancellation 2025-08-10 a paid installment
\* due 2025-08-05 (commission month 2025-09) produces no commission.
C14_SemComissaoAposCancelamento ==
    (/\ fn = "map_cliente_to_comissao" /\ ~saida.raised
     /\ entrada.cliente.data_cancelamento # SemMes
     /\ entrada.reference_month # SemMes
     /\ MesOrd(entrada.reference_month) > MesOrd(entrada.cliente.data_cancelamento))
        => (saida.valor = 0 /\ saida.percentual = 0)

\* C14, with the boundary of the historical path: for a client with a
\* cancellation date and a reference month strictly after the cancellation
\* month the commission is zero, except on the historical path when a paid
\* installment is due in the cancellation month itself: its commission, which
\* falls in the month right after the cancellation, is paid at the percentage
\* of its cycle position (cancellation 2025-08-10, installment due 2025-08-05:
\* paid in 2025-09).
C14_CancelamentoPorCaminho ==
    (/\ fn = "map_cliente_to_comissao" /\ ~saida.raised
     /\ entrada.cliente.data_cancelamento # SemMes
     /\ entrada.reference_month # SemMes
     /\ MesOrd(entrada.reference_month) > MesOrd(entrada.cliente.data_cancelamento))
        => IF /\ ComParcelaPaga
              /\ MesOrd(entrada.reference_month)
                     = MesOrd(entrada.cliente.data_cancelamento) + 1
           THEN LET pos == MesOrd(entrada.reference_month)
                               - MesOrd(entrada.cliente.data_adesao) - 1
                IN /\ saida.percentual = entrada.config.mrr_recurrence[pos + 1]
                   /\ saida.valor >= (entrada.cliente.valor
                                        * entrada.config.mrr_recurrence[pos + 1])
                   /\ saida.valor > 0
           ELSE saida.valor = 0 /\ saida.percentual = 0

\* cancellation in 2025-08, a paid installment due in 2025-08, reference month
\* 2025-09: the commission of position 3 is paid
C14_Witness ==
    /\ ComParcelaPaga
    /\ entrada.cliente.data_cancelamento = <<2025, 8>>
    /\ entrada.cliente.data_adesao = <<2025, 5>>
    /\ entrada.reference_month = <<2025, 9>>
    /\ saida.percentual = 10
    /\ saida.valor = 10000

\* C18: for a customer record with no signup date map_cliente_to_comissao
\* returns percentage 0 and amount 0, for every reference month and also when
\* no reference month is given, whatever the current date, the months elapsed
\* and the overdue count are.
C18_SemAdesaoSemComissao ==
    (/\ fn = "map_cliente_to_comissao" /\ ~saida.raised
     /\ entrada.cliente.data_adesao = SemMes)
        => (saida.percentual = 0 /\ saida.valor = 0)


\* C23: on the estimated path (the historical computation gave position -1),
\* for a reference month at position p of the cycle of a customer not
\* cancelled before it, with monthsElapsedAtReference the supplied value or
\* p+1 when none is supplied, overdueAtReference = max(0, currentOverdue -
\* (currentMonthsElapsed - monthsElapsedAtReference)) and paidMonths = max(0,
\* monthsElapsedAtReference - overdueAtReference), the commission of position p
\* is credited if paidMonths >= p+1 and percentage and amount are zero
\* otherwise.
C23_EstimativaCreditaSePagos ==
    (/\ fn = "map_cliente_to_comissao" /\ ~saida.raised
     /\ entrada.reference_month # SemMes
     /\ entrada.cliente.data_adesao # SemMes
     /\ CalcularComissaoPorHistoricoPagamentos(entrada.cliente, entrada.reference_month,
            entrada.config, "bronze", entrada.historico, entrada.falha).posicao = -1
     /\ NoCiclo(entrada.cliente.data_adesao, entrada.reference_month)
     /\ ~(/\ entrada.cliente.data_cancelamento # SemMes
          /\ MesOrd(entrada.reference_month) > MesOrd(entrada.cliente.data_cancelamento)))
    => LET c == entrada.cliente
           p == MesOrd(entrada.reference_month) - MesOrd(c.data_adesao) - 1
           monthsElapsedAtReference ==
               IF c.meses_ativo_referencia # 0 THEN c.meses_ativo_referencia ELSE p + 1
           projecao == c.parcelas_atrasadas - (c.meses_ativo - monthsElapsedAtReference)
           overdueAtReference == IF projecao > 0 THEN projecao ELSE 0
           pagos == monthsElapsedAtReference - overdueAtReference
           paidMonths == IF pagos > 0 THEN pagos ELSE 0
       IN IF paidMonths >= p + 1
          THEN /\ saida.percentual = entrada.config.mrr_recurrence[p + 1]
               /\ saida.percentual > 0
               /\ saida.valor = (c.valor * entrada.config.mrr_recurrence[p + 1])
                      + (IF p = 0 /\ c.taxa_setup > 0
                         THEN (c.taxa_setup * GetSetupRateForTier(entrada.vendedor_tier, entrada.config))
                         ELSE 0)
          ELSE saida.percentual = 0 /\ saida.valor = 0

\* the estimate credits the second month of the cycle of a customer who has two
\* installments overdue today, six months after the reference month
C23_Witness ==
    /\ fn = "map_cliente_to_comissao" /\ ~saida.raised
    /\ entrada.cliente.cnpj = ""
    /\ entrada.cliente.data_adesao = <<2025, 5>>
    /\ entrada.reference_month = <<2025, 7>>
    /\ entrada.cliente.data_cancelamento = SemMes
    /\ entrada.cliente.meses_ativo_referencia = 2
    /\ entrada.cliente.meses_ativo = 8
    /\ entrada.cliente.parcelas_atrasadas = 2
    /\ saida.percentual = 20
    /\ saida.valor = 20000

\* C26: for all inputs, a negative mrr, setup fee, overdue count or
\* months-elapsed value and an overdue count larger than the months elapsed
\* included, the percentage and the amount returned for a customer and
\* reference month are never negative.
C26_NuncaNegativo ==
    (fn = "map_cliente_to_comissao" /\ ~saida.raised)
        => (saida.percentual >= 0 /\ saida.valor >= 0)

\* the reconciler of one customer: the installment due after the cancellation
\* month answers percentage 0 and amount 0, any other the rate and amount of
\* its cycle position
ChurnNoReconciliador ==
    ComParcelaPaga =>
        LET c == entrada.cliente
            vencimento == MesOrd(entrada.reference_month) - 1
            pos == vencimento - MesOrd(c.data_adesao)
            taxa == entrada.config.mrr_recurrence[pos + 1]
        IN IF c.data_cancelamento # SemMes /\ vencimento > MesOrd(c.data_cancelamento)
           THEN saida.percentual = 0 /\ saida.valor = 0
           ELSE /\ saida.percentual = taxa
                /\ saida.valor = (c.valor * taxa)
                       + (IF pos = 0 /\ c.taxa_setup > 0
                          THEN (c.taxa_setup * entrada.config.setup_tier1) ELSE 0)

\* a seller that the bulk query takes as identified
VendedorIdentificado(v) == v # None /\ v \notin {"", "Não identificado"}

\* in a call of fetch_comissoes_por_historico, the pairs <<customer, paid
\* installment>> (places in the two tables) of the reference month whose
\* position is in the cycle; so_identificados: only of customers with an
\* identified seller
ParcelasDoCiclo(so_identificados) ==
    {x \in (1..Len(entrada.tabela)) \X (1..Len(entrada.historico)) :
        LET c == entrada.tabela[x[1]]
            h == entrada.historico[x[2]]
        IN /\ h.cnpj = c.cnpj /\ h.pago
           /\ MesOrd(h.vencimento) + 1 = MesOrd(entrada.mes_referencia)
           /\ c.data_adesao # SemMes
           /\ MesOrd(h.vencimento) - MesOrd(c.data_adesao) >= 0
           /\ MesOrd(h.vencimento) - MesOrd(c.data_adesao) <= 6
           /\ so_identificados => VendedorIdentificado(c.vendedor)}

\* whether the installment of the pair is due after the customer's
\* cancellation month
VenceAposCancelamento(x) ==
    /\ entrada.tabela[x[1]].data_cancelamento # SemMes
    /\ MesOrd(entrada.historico[x[2]].vencimento) > MesOrd(entrada.tabela[x[1]].data_cancelamento)

\* the bulk function: of the pairs given, those due after the cancellation
\* month have no line, every other has lines with the rate and amount of its
\* position, and there is one line for each of them
ChurnNoBulk(pares) ==
    (fn = "fetch_comissoes_por_historico" /\ ~saida.raised /\ entrada.falha = SemFalha) =>
        /\ \A x \in pares :
               LET c == entrada.tabela[x[1]]
                   h == entrada.historico[x[2]]
                   pos == MesOrd(h.vencimento) - MesOrd(c.data_adesao)
                   linhas == {k \in 1..Len(saida.linhas) :
                                 /\ saida.linhas[k].vendedor = c.vendedor
                                 /\ saida.linhas[k].cnpj = c.cnpj
                                 /\ saida.linhas[k].posicao_ciclo = pos
                                 /\ saida.linhas[k].vencimento_parcela = h.vencimento}
               IN IF VenceAposCancelamento(x)
                  THEN linhas = {}
                  ELSE /\ linhas # {}
                       /\ \A k \in linhas :
                              /\ saida.linhas[k].percentual_comissao = entrada.config.mrr_recurrence[pos + 1]
                              /\ saida.linhas[k].valor_comissao =
                                     (c.valor * entrada.config.mrr_recurrence[pos + 1])
                                     + (IF pos = 0 /\ c.taxa_setup > 0
                                        THEN (c.taxa_setup * entrada.config.setup_tier1)
                                        ELSE 0)
        /\ Len(saida.linhas) = Cardinality({x \in pares : ~VenceAposCancelamento(x)})

\* C24: on the historical path a paid installment gives no commission exactly
\* when its due month is strictly after the customer's cancellation month; an
\* installment due in the cancellation month or before it (or of a customer
\* never cancelled) gives the commission of its cycle position.  In the
\* reconciler of one customer the excluded installment answers percentage 0
\* and amount 0; in the bulk fetch_comissoes_por_historico it has no line,
\* whoever the customer's seller is.
C24_ChurnNoHistoricoDeQualquerVendedor ==
    /\ ChurnNoReconciliador
    /\ ChurnNoBulk(ParcelasDoCiclo(FALSE))

\* C24, amended: the same, the bulk fetch_comissoes_por_historico taking only
\* the customers whose seller is identified (not NULL, not '', not
\* 'Não identificado'): of those, the installments due after the cancellation
\* month have no line and every other has one line with the rate and amount
\* of its position; a customer without an identified seller has no line.
C24_ChurnNoHistorico ==
    /\ ChurnNoReconciliador
    /\ ChurnNoBulk(ParcelasDoCiclo(TRUE))

\* the bulk computation pays the installment due in August 2025 of a customer
\* cancelled in August 2025: one line in September, position 3, 10%
C24_Witness ==
    /\ fn = "fetch_comissoes_por_historico"
    /\ entrada.mes_referencia = <<2025, 9>>
    /\ Len(entrada.tabela) = 1
    /\ entrada.tabela[1].vendedor = "Ana"
    /\ entrada.tabela[1].data_adesao = <<2025, 5>>
    /\ entrada.tabela[1].data_cancelamento = <<2025, 8>>
    /\ entrada.tabela[1].valor = 1000
    /\ Len(saida.linhas) = 1
    /\ saida.linhas[1].vencimento_parcela = <<2025, 8>>
    /\ saida.linhas[1].posicao_ciclo = 3
    /\ saida.linhas[1].percentual_comissao = 10
    /\ saida.linhas[1].valor_comissao = 10000

\* a call of map_cliente_to_comissao on the estimated path whose record is not
\* flagged as cancelled, has a signup date and at least one month elapsed, for
\* a reference month of the cycle, the months elapsed at the reference month
\* either not supplied or supplied as the query computes them (months from
\* signup to the reference month, plus 1)
C30_Caso ==
    /\ fn = "map_cliente_to_comissao" /\ ~saida.raised
    /\ "is_cancelado" \in DOMAIN entrada
    /\ ~entrada.is_cancelado
    /\ entrada.cliente.data_adesao # SemMes
    /\ entrada.cliente.meses_ativo >= 1
    /\ entrada.reference_month # SemMes
    /\ NoCiclo(entrada.cliente.data_adesao, entrada.reference_month)
    /\ entrada.cliente.meses_ativo_referencia
           \in {0, MesesAte(entrada.cliente.data_adesao, entrada.reference_month)}

\* C30, as stated: in that case the estimated path credits commission if and
\* only if map_status does not answer 'inadimplente' for the reference month.
C30_CreditoSseNaoInadimplente ==
    C30_Caso => ((saida.percentual > 0 /\ saida.valor > 0) <=> (saida.status # "inadimplente"))

\* C30, for the months up to the cancellation month: in that case, when the
\* record has no cancellation date or the reference month is not after its
\* month, the estimated path credits commission if and only if map_status
\* does not answer 'inadimplente'; in the months after the cancellation month
\* of a record not flagged as cancelled there is no commission whatever the
\* status.
C30_CreditoSseNaoInadimplenteAteCancelar ==
    C30_Caso =>
        IF /\ entrada.cliente.data_cancelamento # SemMes
           /\ MesOrd(entrada.reference_month) > MesOrd(entrada.cliente.data_cancelamento)
        THEN saida.percentual = 0 /\ saida.valor = 0
        ELSE (saida.percentual > 0 /\ saida.valor > 0) <=> (saida.status # "inadimplente")

\* signup 2025-05, reference 2025-07 supplied as month 3, five months elapsed
\* today with two installments overdue: not overdue in July, 20% credited
C30_Witness ==
    /\ C30_Caso
    /\ entrada.reference_month = <<2025, 7>>
    /\ entrada.cliente.meses_ativo_referencia = 3
    /\ entrada.cliente.meses_ativo = 5
    /\ entrada.cliente.parcelas_atrasadas = 2
    /\ saida.status = "ativo"
    /\ saida.percentual = 20
    /\ saida.valor = 20000

\* C22: for a customer with overdue count k processed in calendar month M on
\* a ledger holding no row of that customer, the snapshot inserts exactly k
\* rows, one for each of the months M-1, ..., M-k (the year decremented across
\* January), each with status 'bloqueada', parcel number j for month M-j and
\* amount mrr * percent / 100 (in hundredths: mrr * percent), and reports
\* created = k.  The run is the whole call, from its first insert to its
\* return, with the calendar month M throughout.
C22_SnapshotCriaK ==
    [][(snap.pc = "rodando" /\ op'.nome = "snapshot" /\ snap.limpa /\ snap.hoje0 = hoje) =>
          \A i \in 1..Len(op'.clientes) :
              LET c == op'.clientes[i]
                  k == c.parcelas_atrasadas
              IN (/\ RowsDe(snap.ledger0, c.cnpj) = {}
                  /\ \A j \in 1..Len(op'.clientes) : op'.clientes[j].cnpj = c.cnpj => j = i)
                     => /\ Cardinality(RowsDe(ledger', c.cnpj)) = k
                        /\ retorno'.resultados[i].registros_criados = k
                        /\ \A j \in 1..k :
                               \E r \in RowsDe(ledger', c.cnpj) :
                                   /\ MesOrd(r.mes_referencia) = MesOrd(hoje) - j
                                   /\ r.mes_referencia[2] \in 1..12
                                   /\ r.status = Bloqueada
                                   /\ r.parcela_numero = j
                                   /\ r.valor_comissao
                                          = c.valor_mrr * c.percentual_comissao]_vars

\* a snapshot of March 2025 has just created the three rows of a customer with
\* three overdue parcels; the third is the row of December 2024
C22_Witness ==
    /\ op.nome = "snapshot"
    /\ op.mes = <<2025, 3>>
    /\ hoje = <<2025, 3>>
    /\ \E i \in 1..Len(op.clientes) :
           /\ op.clientes[i].parcelas_atrasadas = 3
           /\ retorno.resultados[i].registros_criados = 3
           /\ Cardinality({r \in RowsDe(ledger, op.clientes[i].cnpj) : r.data_bloqueio = agora}) = 3
           /\ \E r \in RowsDe(ledger, op.clientes[i].cnpj) :
                  /\ r.mes_referencia = <<2024, 12>>
                  /\ r.parcela_numero = 3
                  /\ r.data_bloqueio = agora

\* C27: in every reachable ledger state a row has a release timestamp
\* (data_liberacao) if and only if its status is 'paga'.
C27_LiberacaoSseePaga ==
    \A r \in ledger : (r.data_liberacao # SemData) <=> (r.status = Paga)

\* a step of a snapshot run that ran one INSERT
PassoDeInsercao ==
    /\ snap.pc = "rodando"
    /\ \/ snap'.pc = "parado"
       \/ snap'.i # snap.i
       \/ snap'.parcela # snap.parcela

\* C28: snapshot creation never modifies an existing row: every row of the
\* ledger, whatever its status, is in the ledger with the same field values
\* after a snapshot run, so a commission already paid or lost is never
\* re-blocked.  Every insert of a run leaves the rows it finds as they are,
\* and so does the run as a whole when nothing else writes meanwhile.
C28_SnapshotNaoAlteraExistentes ==
    [][/\ PassoDeInsercao => \A r \in ledger : r \in ledger'
       /\ (snap.pc = "rodando" /\ op'.nome = "snapshot" /\ snap.limpa)
              => \A r \in snap.ledger0 : r \in ledger']_vars

\* a snapshot has just listed a customer as overdue for a month whose row was
\* created by an earlier run and is paid or lost
C28_Witness ==
    /\ op.nome = "snapshot"
    /\ \E i \in 1..Len(op.clientes) :
           \E r \in RowsDe(ledger, op.clientes[i].cnpj) :
               /\ r.status \in {Paga, Perdida}
               /\ r.data_bloqueio < agora
               /\ MesOrd(hoje) - MesOrd(r.mes_referencia) \in 1..op.clientes[i].parcelas_atrasadas

\* C17: processar_snapshot_inadimplencia returns exactly one result per input
\* customer, in input order, and an insert that raises never prevents the rows
\* of the remaining installments and of later customers from being inserted:
\* after the run every installment has had its insert and every installment
\* whose own insert did not fail has its row (the row of the month that insert
\* computed) in the ledger.
C17_FalhaNaoInterrompe ==
    op.nome = "snapshot"
        => /\ Len(retorno.resultados) = Len(op.clientes)
           /\ \A i \in 1..Len(op.clientes) :
                  /\ retorno.resultados[i].cnpj = op.clientes[i].cnpj
                  /\ \A p \in 1..op.clientes[i].parcelas_atrasadas :
                         \E t \in tentativas[i] :
                             /\ t[1] = p
                             /\ t[3] = SemFalha
                                    => \E r \in ledger :
                                           /\ r.cnpj = op.clientes[i].cnpj
                                           /\ r.mes_referencia = t[2]

\* the insert of the first installment of the first customer failed; the row
\* of its second installment and a row of the second customer were created by
\* this run
C17_Witness ==
    /\ op.nome = "snapshot"
    /\ Len(op.clientes) = 2
    /\ op.clientes[1].cnpj # op.clientes[2].cnpj
    /\ op.clientes[1].parcelas_atrasadas >= 2
    /\ \E t \in tentativas[1] : t[1] = 1 /\ t[3] = FalhaConsulta
    /\ \E r \in ledger :
           /\ r.cnpj = op.clientes[1].cnpj
           /\ r.mes_referencia = SubtrairMeses(hoje, 2)
           /\ r.data_bloqueio = agora
    /\ \E r \in ledger :
           /\ r.cnpj = op.clientes[2].cnpj
           /\ r.data_bloqueio = agora
    /\ ~\E r \in ledger :
           /\ r.cnpj = op.clientes[1].cnpj
           /\ r.mes_referencia = SubtrairMeses(hoje, 1)

\* C25: when an insert of a blocked row fails with a database or connection
\* error, the failure is reported for that customer (result with
\* sucesso = false) and the failed row is counted neither as created nor as
\* 'already existed'.
C25_FalhaReportada ==
    op.nome = "snapshot"
        => \A i \in 1..Len(op.clientes) :
               FalhasDoCliente(tentativas, i) # {}
                   => /\ ~retorno.resultados[i].sucesso
                      /\ retorno.resultados[i].registros_criados
                             + retorno.resultados[i].registros_existentes
                                 = op.clientes[i].parcelas_atrasadas
                                       - Cardinality(FalhasDoCliente(tentativas, i))

\* C19: in every interleaving of two release requests for the same customer,
\* the database answering both and no other request served since the first of
\* them started (counts n1 and n2, B blocked rows when the first starts), once
\* both have returned: the rows paid by them are the min(n1 + n2, B) oldest
\* blocked rows, each of them keeps the release timestamp of its bloqueada ->
\* paga transition, and the two reported counts add up to the number of rows
\* that went from bloqueada to paga.
C19_LiberacoesConcorrentes ==
    (/\ pedido[1].pc = "feito"
     /\ pedido[2].pc = "feito"
     /\ pedido[1].tipo = "liberar"
     /\ pedido[2].tipo = "liberar"
     /\ {pedido[1].ordem, pedido[2].ordem} = {1, 2}
     /\ pedido[1].falha = SemFalha
     /\ pedido[2].falha = SemFalha
     /\ Ids(ledger) = Ids(base)
     /\ pedido[1].cnpj = pedido[2].cnpj)
        => LET cnpj == pedido[1].cnpj
               mudaram == {r.id : r \in {x \in ledger : x.status = Paga}}
                              \cap {r.id : r \in BloqueadasDe(base, cnpj)}
           IN /\ mudaram = FifoIds(base, cnpj, pedido[1].n + pedido[2].n)
              /\ Cardinality(mudaram)
                     = Min(pedido[1].n + pedido[2].n, Cardinality(BloqueadasDe(base, cnpj)))
              /\ pedido[1].liberadas + pedido[2].liberadas = Cardinality(mudaram)
              /\ \A id \in mudaram : <<id, Linha(ledger, id).data_liberacao>> \in primeira

----------------------------------------------------------------------------
(* Properties of the commission configuration *)

\* C15: fetch_commission_config never raises: when the configuration store is
\* unreachable, the query fails or the table has no row, it returns the
\* hard-coded default (sales goal 10, MRR 5/10/20, setup 15/25/40, schedule
\* [30,20,10,10,10,10,10]).
C15_FetchNuncaLevanta ==
    devolvido.fn = "fetch"
        => /\ ~devolvido.raised
           /\ devolvido.falha # "nenhuma" => devolvido.config = <<GetDefaultCommissionConfig>>

\* C16: update_commission_config called with a non-empty subset of fields
\* returns an object that reports each supplied field with exactly the supplied
\* value, for every value the update accepts (0 included).
C16_UpdateDevolveOFornecido ==
    (/\ devolvido.fn = "update"
     /\ ~devolvido.raised
     /\ DOMAIN devolvido.args # {})
        => \A f \in DOMAIN devolvido.args : devolvido.config[1][f] = devolvido.args[f]

\* C20: once update_commission_config has returned, every
\* fetch_commission_config call that starts afterwards (and before any other
\* update) returns the updated configuration, also when another fetch had read
\* the store but not yet written the cache while the update ran.
C20_FetchAposUpdate ==
    (/\ devolvido.fn = "fetch"
     /\ ~devolvido.raised
     /\ devolvido.falha = "nenhuma"
     /\ devolvido.apos # <<>>
     /\ devolvido.semOutroUpdate)
        => devolvido.config = <<devolvido.apos[1].config>>

C21_MudancaVisivelEmUmTTL ==
    (/\ devolvido.origem = "cache"
     /\ devolvido.fn = "fetch"
     /\ mudouEm # <<>>
     /\ devolvido.quando - mudouEm[1] >= COMMISSION_CONFIG_CACHE_TTL)
    => devolvido.config = <<ConfigDeRow(RowAtiva(commission_config)[1])>>

====
